---- MODULE Spec2Model ----
(***************************************************************************)
(* agentdeck: the session orchestrator (sessions/manager.py), the output   *)
(* log (sessions/agent_output_log.py), the tmux backend as seen through    *)
(* sessions/tmux_backend.py, and the startup / capture loop of main.py.    *)
(*                                                                         *)
(* Every coroutine is cut at its awaits: one action is one synchronous     *)
(* segment of the event loop together with the asyncio.to_thread call the  *)
(* segment ends in.  Backend calls touch only the tmux server and the      *)
(* segments only the orchestrator, so a call that starts later than its    *)
(* segment ends is another order of the same actions.  Request handlers    *)
(* run in the task slots of `tasks`; the capture loop is `loop`.           *)
(***************************************************************************)
EXTENDS Integers, Sequences, FiniteSets, TLC

VARIABLES
    phase,              \* "boot" before lifespan's rehydration, then "run"
    now,                \* time.time()
    sessions,           \* SessionManager._sessions, in insertion order
    agents,             \* keys of SessionManager._agents
    last_output,        \* SessionManager._last_output
    last_tail,          \* SessionManager._last_tail
    last_history_size,  \* SessionManager._last_history_size
    log,                \* rows of AgentOutputLog's chunks table, by id
    tmux,               \* the tmux server: session name -> pane state
    sent,               \* TmuxBackend.send_keys calls, in call order
    kills,              \* TmuxBackend.kill_session calls per session name
    clipboard,          \* last image handed to copy_image_to_clipboard
    last_state,         \* PushNotifier._last_state
    subs,               \* PushSubscriptionStore._subs
    pushes,             \* webpush calls, in call order
    tasks,              \* request coroutines: slot -> frame
    loop,               \* the _capture_loop coroutine's frame
    settings,           \* get_settings()
    calls               \* requests accepted so far

pushVars == <<last_state, subs, pushes>>

vars == <<phase, now, sessions, agents, last_output, last_tail,
          last_history_size, log, tmux, sent, kills, clipboard, pushVars, tasks, loop,
          settings, calls>>

mgrVars == <<sessions, agents, last_output, last_tail, last_history_size>>

(***************************************************************************)
(* Bounds of the model.                                                    *)
(***************************************************************************)
MaxTime == 2            \* the clock stops advancing here
MaxSessions == 1        \* create_session is not started beyond this many entries
MaxScroll == 1          \* scrollback lines per pane in the lifecycle specification
MaxCaptureScroll == 7   \* scrollback lines per pane in the capture specification
MaxCalls == 3           \* requests the clients issue
MaxSeqSessions == 5     \* registry entries in the sequential specification

TaskIds == {"t1", "t2"}

\* SessionInfo.ended_at = None
NoneTs == 0

(***************************************************************************)
(* dict helpers (Python dict get / set / pop on a partial function).       *)
(***************************************************************************)
Put(f, k, v) == [x \in DOMAIN f \cup {k} |-> IF x = k THEN v ELSE f[x]]
Pop(f, k) == [x \in DOMAIN f \ {k} |-> f[x]]
EmptyDict == [x \in {} |-> 0]

RECURSIVE SeqFilterOut(_, _)
\* the ordered dict `sessions` without the entry of key sid
SeqFilterOut(S, sid) ==
    IF S = <<>> THEN <<>>
    ELSE IF Head(S).session_id = sid THEN SeqFilterOut(Tail(S), sid)
    ELSE <<Head(S)>> \o SeqFilterOut(Tail(S), sid)

Keys(S) == {S[i].session_id : i \in DOMAIN S}
Registered(sid) == sid \in Keys(sessions)
InfoIn(S, sid) == S[CHOOSE i \in DOMAIN S : S[i].session_id = sid]
Info(sid) == InfoIn(sessions, sid)

\* self._sessions[session_id] = info : keeps the slot of an existing key
DictSet(S, info) ==
    IF info.session_id \in Keys(S)
    THEN [i \in DOMAIN S |-> IF S[i].session_id = info.session_id THEN info ELSE S[i]]
    ELSE Append(S, info)

SessionInfo(sid, kind, wd, alive, ended) ==
    [session_id |-> sid, agent_type |-> kind, working_dir |-> wd,
     is_alive |-> alive, ended_at |-> ended]

(***************************************************************************)
(* Strings as character sequences, for _slug_dir_name.                     *)
(***************************************************************************)
RECURSIVE JoinChars(_)
JoinChars(cs) == IF cs = <<>> THEN "" ELSE Head(cs) \o JoinChars(Tail(cs))

RECURSIVE JoinLines(_)
\* "\n".join(lines)
JoinLines(ls) ==
    IF ls = <<>> THEN ""
    ELSE IF Len(ls) = 1 THEN ls[1]
    ELSE ls[1] \o "\n" \o JoinLines(Tail(ls))

Lower(ch) ==
    CASE ch = "A" -> "a" [] ch = "B" -> "b" [] ch = "U" -> "u" [] ch = "P" -> "p"
      [] OTHER -> ch
IsAlnum(ch) ==
    ch \in {"a", "b", "e", "n", "o", "p", "u", "A", "B", "P", "U", "2", "3"}
IsSpace(ch) == ch \in {" "}

RECURSIVE LStrip(_, _)
LStrip(cs, drop) ==
    IF cs # <<>> /\ Head(cs) \in drop THEN LStrip(Tail(cs), drop) ELSE cs

RECURSIVE RStrip(_, _)
RStrip(cs, drop) ==
    IF cs # <<>> /\ cs[Len(cs)] \in drop
    THEN RStrip(SubSeq(cs, 1, Len(cs) - 1), drop) ELSE cs

Strip(cs, drop) == RStrip(LStrip(cs, drop), drop)

SlugCap == 20

Min2(a, b) == IF a < b THEN a ELSE b

\* seq[:n]
Prefix(seq, n) == SubSeq(seq, 1, Min2(n, Len(seq)))

slug_dir_name(name) ==
    LET lowered == [i \in DOMAIN Strip(name, {" "}) |-> Lower(Strip(name, {" "})[i])]
        mapped == [i \in DOMAIN lowered |->
                     IF IsAlnum(lowered[i]) THEN lowered[i]
                     ELSE IF lowered[i] \in {"-", "_"} THEN lowered[i]
                     ELSE "-"]
        slug == Strip(mapped, {"-"})
    IN  IF slug = <<>> THEN <<"s", "e", "s", "s", "i", "o", "n">> ELSE slug

RECURSIVE NextFree(_, _, _)
\* the while-loop of _build_session_id: the first base-<suffix> not registered
NextFree(S, base, suffix) ==
    IF (base \o "-" \o ToString(suffix)) \notin Keys(S)
    THEN base \o "-" \o ToString(suffix)
    ELSE NextFree(S, base, suffix + 1)

FirstSuffix == 2

\* `base` of _build_session_id
base_id(dir, title, kind) ==
    LET name_source == IF title # <<>> THEN Strip(title, {" "}) ELSE dir.name
        capped == Prefix(slug_dir_name(name_source), SlugCap)
        base_name == IF capped = <<>> THEN "session" ELSE JoinChars(capped)
    IN  "agent-" \o kind \o "-" \o base_name

\* _build_session_id without its `base not in self._sessions` test
build_session_id_by_dir(S, dir, title, kind) ==
    IF ~\E i \in DOMAIN S : S[i].working_dir = dir.path
    THEN base_id(dir, title, kind)
    ELSE NextFree(S, base_id(dir, title, kind), FirstSuffix)

build_session_id(S, dir, title, kind) ==
    LET base == base_id(dir, title, kind)
        has_same_dir == \E i \in DOMAIN S : S[i].working_dir = dir.path
    IN  IF ~has_same_dir /\ base \notin Keys(S) THEN base
        ELSE NextFree(S, base, FirstSuffix)

(***************************************************************************)
(* The tmux server behind TmuxBackend.  A session is one pane: the lines   *)
(* scrolled into history, the visible screen, pane_dead_status and the     *)
(* pane's current path.                                                    *)
(***************************************************************************)
Pane(path) == [hist |-> <<>>, screen |-> <<"$">>, dead |-> FALSE, path |-> path]

tmux_is_alive(T, name) == name \in DOMAIN T
tmux_is_process_dead(T, name) == IF name \in DOMAIN T THEN T[name].dead ELSE FALSE
tmux_get_history_size(T, name) == IF name \in DOMAIN T THEN Len(T[name].hist) ELSE 0
\* pane.capture_pane(start="-"): history followed by the visible screen
tmux_capture_scrollback(T, name) == T[name].hist \o T[name].screen
tmux_capture_pane(T, name) == JoinLines(T[name].screen)
tmux_kill_session(T, name) == Pop(T, name)

Count(f, k) == IF k \in DOMAIN f THEN f[k] ELSE 0

(***************************************************************************)
(* AgentOutputLog.                                                         *)
(***************************************************************************)
Chunk(sid, ts, content) ==
    [session_id |-> sid, ts |-> ts, content |-> content, archived |-> FALSE]

log_append(L, sid, lines, ts) ==
    IF lines = <<>> THEN L ELSE Append(L, Chunk(sid, ts, JoinLines(lines)))

\* soft_delete without its UPDATE
log_soft_delete_none(L, sid) == L

log_soft_delete(L, sid) ==
    [i \in DOMAIN L |-> IF L[i].session_id = sid
                        THEN [L[i] EXCEPT !.archived = TRUE] ELSE L[i]]

Max(S) == CHOOSE x \in S : \A y \in S : y <= x

\* SELECT MAX(ts) ... WHERE session_id = ? : archived rows count too
log_latest_ts(L, sid) ==
    LET ts == {L[i].ts : i \in {j \in DOMAIN L : L[j].session_id = sid}}
    IN  IF ts = {} THEN NoneTs ELSE Max(ts)

(***************************************************************************)
(* SessionManager helpers.                                                 *)
(***************************************************************************)
require_session(S, sid) == sid \in Keys(S)

\* _require_alive_session without its is_alive test
require_alive_session_any(S, sid) ==
    IF ~require_session(S, sid) THEN "not_found" ELSE "ok"

require_alive_session(S, sid) ==
    IF ~require_session(S, sid) THEN "not_found"
    ELSE IF ~InfoIn(S, sid).is_alive THEN "conflict"
    ELSE "ok"

\* _mark_dead without its `info.is_alive` test
mark_dead_again(S, sid, t) ==
    [i \in DOMAIN S |->
        IF S[i].session_id = sid
        THEN [S[i] EXCEPT !.is_alive = FALSE, !.ended_at = t]
        ELSE S[i]]

\* _mark_dead without its assignment to ended_at
mark_dead_no_stamp(S, sid, t) ==
    [i \in DOMAIN S |->
        IF S[i].session_id = sid /\ S[i].is_alive
        THEN [S[i] EXCEPT !.is_alive = FALSE]
        ELSE S[i]]

mark_dead(S, sid, t) ==
    [i \in DOMAIN S |->
        IF S[i].session_id = sid /\ S[i].is_alive
        THEN [S[i] EXCEPT !.is_alive = FALSE, !.ended_at = t]
        ELSE S[i]]

\* active_session_ids without its `if info.is_alive` filter
active_session_ids_all(S) == [i \in DOMAIN S |-> S[i].session_id]

RECURSIVE active_session_ids(_)
active_session_ids(S) ==
    IF S = <<>> THEN <<>>
    ELSE IF Head(S).is_alive THEN <<Head(S).session_id>> \o active_session_ids(Tail(S))
    ELSE active_session_ids(Tail(S))

FINGERPRINT_SIZE == 5

RECURSIVE ScanOverlap(_, _, _, _)
\* for i in range(limit): if current[i : i + fp_size] == fingerprint
ScanOverlap(fingerprint, current, i, limit) ==
    IF i >= limit THEN -1
    ELSE IF SubSeq(current, i + 1, i + Len(fingerprint)) = fingerprint
         THEN i + Len(fingerprint)
         ELSE ScanOverlap(fingerprint, current, i + 1, limit)

find_overlap(previous, current) ==
    LET fp_size == Min2(FINGERPRINT_SIZE, Len(previous))
        fingerprint == SubSeq(previous, Len(previous) - fp_size + 1, Len(previous))
    IN  IF fp_size = 0 THEN 0
        ELSE ScanOverlap(fingerprint, current, 0, Len(current) - fp_size + 1)

\* lines[idx:]
From(lines, idx) == SubSeq(lines, idx + 1, Len(lines))

\* new_lines of capture_to_log, prev = None when sid has no _last_tail entry
delta_lines(tail, sid, scrollback) ==
    IF sid \notin DOMAIN tail THEN scrollback
    ELSE LET idx == find_overlap(tail[sid], scrollback)
         IN  IF idx >= 0 THEN From(scrollback, idx) ELSE scrollback

\* new_lines of _capture_final: `if prev:` is false for None and for []
final_lines(tail, sid, lines) ==
    IF sid \in DOMAIN tail /\ tail[sid] # <<>>
    THEN LET idx == find_overlap(tail[sid], lines)
         IN  IF idx >= 0 THEN From(lines, idx) ELSE lines
    ELSE lines

(***************************************************************************)
(* Frames of the coroutines.  pc "r_x" names the await a coroutine is      *)
(* suspended in, with the result of the backend call x ready; "ret" holds  *)
(* the outcome of a finished call until the caller takes it.  res is "ok"  *)
(* or the exception raised.                                                *)
(***************************************************************************)
IdleTask ==
    [op |-> "none", pc |-> "idle", sid |-> "", res |-> "", wd |-> "", kind |-> "",
     keys |-> <<>>, pos |-> 0, size |-> 0, flag |-> FALSE, out |-> <<>>,
     call |-> 0, text |-> "", lines |-> <<>>, before |-> 0, limit |-> 0, ts |-> 0,
     query |-> "", status |-> 0, force |-> FALSE, changed |-> FALSE, body |-> ""]

IdleLoop ==
    [pc |-> "sleep", ids |-> <<>>, sid |-> "", dead |-> FALSE, hsize |-> 0,
     lines |-> <<>>]

Begin(t, op, sid, pc) ==
    [tasks EXCEPT ![t] = [IdleTask EXCEPT !.op = op, !.sid = sid, !.pc = pc]]

Finish(t, op, sid, exc) ==
    [tasks EXCEPT ![t] = [IdleTask EXCEPT !.op = op, !.sid = sid, !.pc = "ret",
                                          !.res = exc]]

Return(t, res) == [tasks EXCEPT ![t].pc = "ret", ![t].res = res]

\* the ids clients ask about: the registered ones, and two that may be unknown
KnownIds == {"agent-claude-a", "agent-claude-old"}
SidInputs == Keys(sessions) \cup KnownIds

AgentTypes == {"claude"}

Dirs ==
    { [path |-> "/x/a", name |-> <<"a">>, is_dir |-> TRUE],
      [path |-> "/y/A!", name |-> <<"A", "!">>, is_dir |-> TRUE],
      [path |-> "/nope", name |-> <<"n", "o", "p", "e">>, is_dir |-> FALSE] }

\* <<>> is title = None
Titles == { <<>>, <<" ", "a", "-", "2">> }

(***************************************************************************)
(* Startup: lifespan() rehydrates the registry from the tmux server and    *)
(* the output log left by an earlier run.                                  *)
(***************************************************************************)
Parents(path) ==
    CASE path = "/x/a" -> {"/x", "/"}
      [] path = "/y/A!" -> {"/y", "/"}
      [] path = "/z/old" -> {"/z", "/"}
      [] OTHER -> {"/"}

is_whitelisted_session_dir(working_dir, whitelist_dirs) ==
    IF whitelist_dirs = {} THEN TRUE
    ELSE \E allowed \in whitelist_dirs :
            working_dir = allowed \/ allowed \in Parents(working_dir)

StartsWithAgent(name) == name \in {"agent-claude-a", "agent-claude-old"}

infer_agent_type(name) == "claude"

BootConfigs ==
    { [tmux |-> EmptyDict, log |-> <<>>, whitelist |-> {}],
      [tmux |-> [n \in {"agent-claude-a"} |-> Pane("/x/a")],
       log |-> <<Chunk("agent-claude-old", 1, "x")>>,
       whitelist |-> {"/x"}] }

RECURSIVE SetToSeq(_)
SetToSeq(S) ==
    IF S = {} THEN <<>>
    ELSE LET x == CHOOSE y \in S : TRUE IN <<x>> \o SetToSeq(S \ {x})

\* TmuxBackend.list_sessions
tmux_list_sessions(T) == SetToSeq(DOMAIN T)

RECURSIVE log_session_ids_all(_)
\* session_ids without its WHERE archived = 0
log_session_ids_all(L) ==
    IF L = <<>> THEN <<>>
    ELSE LET rest == log_session_ids_all(SubSeq(L, 1, Len(L) - 1))
             last == L[Len(L)]
         IN  IF last.session_id \in {rest[i] : i \in DOMAIN rest}
             THEN rest ELSE Append(rest, last.session_id)

RECURSIVE log_session_ids(_)
\* SELECT DISTINCT session_id FROM chunks WHERE archived = 0
log_session_ids(L) ==
    IF L = <<>> THEN <<>>
    ELSE LET rest == log_session_ids(SubSeq(L, 1, Len(L) - 1))
             last == L[Len(L)]
         IN  IF last.archived \/ last.session_id \in {rest[i] : i \in DOMAIN rest}
             THEN rest ELSE Append(rest, last.session_id)

RECURSIVE rehydrate_live(_, _, _, _)
\* the first loop of lifespan: register_existing_session per listed tmux session
rehydrate_live(S, names, T, whitelist) ==
    IF names = <<>> THEN S
    ELSE LET sid == Head(names)
             skip == ~StartsWithAgent(sid)
                     \/ ~is_whitelisted_session_dir(T[sid].path, whitelist)
         IN  rehydrate_live(
                IF skip THEN S
                ELSE DictSet(S, SessionInfo(sid, infer_agent_type(sid), T[sid].path,
                                            TRUE, NoneTs)),
                Tail(names), T, whitelist)

RECURSIVE rehydrate_dead(_, _, _, _)
\* the second loop of lifespan: register_dead_session per logged id not live
rehydrate_dead(S, ids, live_ids, L) ==
    IF ids = <<>> THEN S
    ELSE LET sid == Head(ids)
         IN  rehydrate_dead(
                IF sid \in live_ids THEN S
                ELSE DictSet(S, SessionInfo(sid, "claude", "(unknown)", FALSE,
                                            log_latest_ts(L, sid))),
                Tail(ids), live_ids, L)

lifespan_rehydrate ==
    /\ phase = "boot"
    /\ phase' = "run"
    /\ LET live == rehydrate_live(<<>>, tmux_list_sessions(tmux), tmux,
                                  settings.rehydrate_dir_whitelist)
       IN  sessions' = rehydrate_dead(live, log_session_ids(log), Keys(live), log)
    /\ UNCHANGED <<settings, now, calls, agents, last_output, last_tail, last_history_size,
                   log, tmux, sent, kills, clipboard, pushVars, tasks, loop>>

Tick ==
    /\ phase = "run"
    /\ now < MaxTime
    /\ now' = now + 1
    /\ UNCHANGED <<phase, settings, calls, sessions, agents, last_output, last_tail,
                   last_history_size, log, tmux, sent, kills, clipboard, pushVars, tasks, loop>>

(***************************************************************************)
(* The environment: what the agent process and the tmux user do to a pane. *)
(***************************************************************************)
\* a line scrolls off the top of the screen into history
env_output(name, line, bound) ==
    /\ phase = "run"
    /\ name \in DOMAIN tmux
    /\ ~tmux[name].dead
    /\ Len(tmux[name].hist) < bound
    /\ tmux' = [tmux EXCEPT ![name].hist = Append(@, line)]
    /\ UNCHANGED <<phase, settings, now, calls, mgrVars, log, sent, kills, clipboard, pushVars, tasks,
                   loop>>

\* the pane's process exits; remain-on-exit keeps the pane
env_exit(name) ==
    /\ phase = "run"
    /\ name \in DOMAIN tmux
    /\ ~tmux[name].dead
    /\ tmux' = [tmux EXCEPT ![name].dead = TRUE]
    /\ UNCHANGED <<phase, settings, now, calls, mgrVars, log, sent, kills, clipboard, pushVars, tasks,
                   loop>>

\* the agent redraws the visible screen
env_screen(name, screen) ==
    /\ phase = "run"
    /\ name \in DOMAIN tmux
    /\ ~tmux[name].dead
    /\ tmux[name].screen # screen
    /\ tmux' = [tmux EXCEPT ![name].screen = screen]
    /\ UNCHANGED <<phase, settings, now, calls, mgrVars, log, sent, kills, clipboard, pushVars, tasks,
                   loop>>

\* the tmux session is killed from outside the orchestrator
env_gone(name) ==
    /\ phase = "run"
    /\ name \in DOMAIN tmux
    /\ tmux' = Pop(tmux, name)
    /\ UNCHANGED <<phase, settings, now, calls, mgrVars, log, sent, kills, clipboard, pushVars, tasks,
                   loop>>

(***************************************************************************)
(* UIStateDetector.  A pane line is one of the texts below; the second     *)
(* column is the text on the real pane where it has characters outside     *)
(* ASCII.  The Is... operators are the detector's regular expressions      *)
(* evaluated on these texts.                                               *)
(*    "> 1. Yes"         U+276F " 1. Yes"                                  *)
(*    "> 2. No"          U+276F " 2. No"                                   *)
(*    "Enter to select"  "Enter to select . up/down to navigate . Esc to   *)
(*                        cancel" with U+00B7 and U+2191/U+2193            *)
(*    "* Thinking..."    U+2733 " Thinking" U+2026                         *)
(*    "- Working (0s)"   U+2022 " Working (0s " U+2022 " esc to interrupt)"*)
(*    "---"              U+2500 three times                                *)
(***************************************************************************)
PaneLines ==
    {"", "$", "Pick one:", "> 1. Yes", "  1. Yes", "> 2. No", "  2. No",
     "  3. Type something", "  0. Dismiss", "Enter to select", "* Thinking...", "- Working (0s)",
     "? for shortcuts", "---", "    desc", "1: Bad  2: Fine  3: Good  0: Dismiss"}

\* _ITEM_RE: group num (\d+ also matches 0), -1 when the line is no item
ItemNum(l) ==
    CASE l \in {"> 1. Yes", "  1. Yes"} -> 1
      [] l \in {"> 2. No", "  2. No"} -> 2
      [] l = "  3. Type something" -> 3
      [] l = "  0. Dismiss" -> 0
      [] OTHER -> -1
IsItem(l) == ItemNum(l) # -1
\* group label, stripped
ItemLabel(l) ==
    CASE ItemNum(l) = 1 -> "Yes" [] ItemNum(l) = 2 -> "No"
      [] ItemNum(l) = 3 -> "Type something" [] ItemNum(l) = 0 -> "Dismiss"
      [] OTHER -> ""
\* a cursor marker in group prefix
HasMarker(l) == l \in {"> 1. Yes", "> 2. No"}
IsFooter(l) == l = "Enter to select"
IsBlank(l) == l = ""
\* _CHROME_RE: its last alternative matches a line that starts with a marker
IsChrome(l) == l \in {"? for shortcuts", "> 1. Yes", "> 2. No"}
IsHrule(l) == l = "---"
\* line.startswith("    ")
IsDescription(l) == l = "    desc"
IsSpinner(l) == l = "* Thinking..."
IsCodexWorking(l) == l = "- Working (0s)"
IsSurvey(l) == l = "1: Bad  2: Fine  3: Good  0: Dismiss"
\* line.strip().endswith(("?", ":"))
EndsWithQuestion(l) == l = "Pick one:"
\* _FREEFORM_HINT in label.lower()
IsFreeform(label) == label = "Type something"

\* ParsedOutput as models.py declares it (state, items, selected_index, question,
\* auto_response; the question text is left out).  "none" is a try_ method's None.
ParsedOutput(state, items, selected_index, auto_response) ==
    [state |-> state, items |-> items, selected_index |-> selected_index,
     auto_response |-> auto_response]
NoParse == ParsedOutput("none", <<>>, 0, "")

RECURSIVE StripTrailing(_)
\* while lines and (not lines[-1].strip() or _CHROME_RE.search(lines[-1])): pop
StripTrailing(lines) ==
    IF lines # <<>> /\ (IsBlank(lines[Len(lines)]) \/ IsChrome(lines[Len(lines)]))
    THEN StripTrailing(SubSeq(lines, 1, Len(lines) - 1))
    ELSE lines

BOTTOM_LINES == 5

try_working(lines) ==
    LET tail == {lines[i] : i \in {j \in DOMAIN lines : j > Len(lines) - BOTTOM_LINES}}
    IN  IF \E l \in tail : IsSurvey(l) THEN ParsedOutput("working", <<>>, 0, "0")
        ELSE IF \E l \in tail : IsSpinner(l) \/ IsCodexWorking(l)
        THEN ParsedOutput("working", <<>>, 0, "")
        ELSE NoParse

RECURSIVE SkipFooter(_, _)
\* "Skip footer lines at the very bottom": the index the upward walk starts at
SkipFooter(lines, i) ==
    IF i >= 1 /\ (IsBlank(lines[i]) \/ IsFooter(lines[i]))
    THEN SkipFooter(lines, i - 1) ELSE i

AnchorReach == 5
GapLimit == 3

RECURSIVE WalkUpPast(_, _, _, _, _)
\* the walk without "Stop once we find item 1": it goes on to the top of the pane
WalkUpPast(lines, i, found, bottom, prev) ==
    IF i < 1 THEN [ok |-> TRUE, found |-> found]
    ELSE IF ~IsItem(lines[i]) THEN WalkUpPast(lines, i - 1, found, bottom, prev)
    ELSE IF bottom = 0 /\ i - 1 < Len(lines) - AnchorReach
    THEN [ok |-> FALSE, found |-> found]
    ELSE IF prev # 0 /\ prev - i > GapLimit THEN [ok |-> TRUE, found |-> found]
    ELSE WalkUpPast(lines, i - 1,
                    Put(found, ItemNum(lines[i]),
                        [idx |-> i, marker |-> HasMarker(lines[i])]),
                    IF bottom = 0 THEN i ELSE bottom, i)

RECURSIVE WalkUp(_, _, _, _, _)
\* "Walk upward looking for numbered items", indices from 1: found maps an item
\* number to its line and marker, bottom and prev are 0 for None; ok is FALSE
\* where the code returns None out of the walk
WalkUp(lines, i, found, bottom, prev) ==
    IF i < 1 THEN [ok |-> TRUE, found |-> found]
    ELSE IF ~IsItem(lines[i]) THEN WalkUp(lines, i - 1, found, bottom, prev)
    ELSE IF bottom = 0 /\ i - 1 < Len(lines) - AnchorReach
    THEN [ok |-> FALSE, found |-> found]
    ELSE IF prev # 0 /\ prev - i > GapLimit THEN [ok |-> TRUE, found |-> found]
    ELSE LET more == Put(found, ItemNum(lines[i]),
                         [idx |-> i, marker |-> HasMarker(lines[i])])
         IN  IF ItemNum(lines[i]) = 1 THEN [ok |-> TRUE, found |-> more]
             ELSE WalkUp(lines, i - 1, more, IF bottom = 0 THEN i ELSE bottom, i)

\* the descriptions of phase 2 are left out: they fill SelectionItem.description
try_selection(lines) ==
    IF lines = <<>> THEN NoParse
    ELSE
    LET walk == WalkUp(lines, SkipFooter(lines, Len(lines)), EmptyDict, 0, 0)
        found == walk.found
        nums == DOMAIN found
    IN  IF ~walk.ok \/ 1 \notin nums \/ Cardinality(nums) < 2 THEN NoParse
        ELSE IF \E k \in 1 .. Max(nums) : k \notin nums THEN NoParse
        ELSE
        LET marked == {k \in 1 .. Max(nums) : found[k].marker}
            has_footer == \E j \in DOMAIN lines : IsFooter(lines[j])
            first == found[1].idx
            has_question == \E k \in {first - 1, first - 2} :
                               k >= 1 /\ EndsWithQuestion(lines[k])
            items == [k \in 1 .. Max(nums) |->
                        [number |-> k, label |-> ItemLabel(lines[found[k].idx]),
                         is_freeform |-> IsFreeform(ItemLabel(lines[found[k].idx]))]]
        IN  IF ~has_footer /\ ~has_question THEN NoParse
            ELSE ParsedOutput("selection", items,
                              IF marked # {} THEN Max(marked) - 1 ELSE 0, "")

\* has_marker of _try_selection, which the detector passes as arrow_navigable:
\* some item of the list 1..max carries a cursor marker
has_marker(lines) ==
    LET walk == WalkUp(lines, SkipFooter(lines, Len(lines)), EmptyDict, 0, 0)
    IN  \E k \in DOMAIN walk.found : k >= 1 /\ walk.found[k].marker

\* raw.split("\n") of the "\n".join of the pane's lines: no line gives [""]
SplitLines(screen) == IF screen = <<>> THEN <<"">> ELSE screen

parse(screen) ==
    LET lines == StripTrailing(SplitLines(screen))
    IN  IF try_working(lines).state # "none" THEN try_working(lines)
        ELSE IF try_selection(lines).state # "none" THEN try_selection(lines)
        ELSE ParsedOutput("prompt", <<>>, 0, "")

(***************************************************************************)
(* agents/claude_code.py: the shortcut table.                              *)
(***************************************************************************)
SHORTCUTS ==
    [k \in {"stop", "cancel", "up", "down", "left", "right", "enter", "tab"} |->
        CASE k = "stop" -> [keys |-> "Escape", enter |-> FALSE]
          [] k = "cancel" -> [keys |-> "C-c", enter |-> FALSE]
          [] k = "up" -> [keys |-> "Up", enter |-> FALSE]
          [] k = "down" -> [keys |-> "Down", enter |-> FALSE]
          [] k = "left" -> [keys |-> "Left", enter |-> FALSE]
          [] k = "right" -> [keys |-> "Right", enter |-> FALSE]
          [] k = "enter" -> [keys |-> "Enter", enter |-> FALSE]
          [] k = "tab" -> [keys |-> "BTab", enter |-> FALSE]]

\* text.strip().lower(), text a sequence of characters
StripLower(text) ==
    JoinChars([i \in DOMAIN Strip(text, {" "}) |-> Lower(Strip(text, {" "})[i])])

\* the lookup without strip() and lower()
expand_shortcut_exact(text) ==
    IF JoinChars(text) \in DOMAIN SHORTCUTS
    THEN [keys |-> SHORTCUTS[JoinChars(text)].keys,
          enter |-> SHORTCUTS[JoinChars(text)].enter, some |-> TRUE]
    ELSE [keys |-> "", enter |-> FALSE, some |-> FALSE]

\* SHORTCUTS.get(text.strip().lower()): "none" for None
expand_shortcut(text) ==
    IF StripLower(text) \in DOMAIN SHORTCUTS
    THEN [keys |-> SHORTCUTS[StripLower(text)].keys,
          enter |-> SHORTCUTS[StripLower(text)].enter, some |-> TRUE]
    ELSE [keys |-> "", enter |-> FALSE, some |-> FALSE]

(***************************************************************************)
(* SessionManager.create_session                                           *)
(***************************************************************************)
envVars == <<phase, settings, now, calls>>

\* a request arrives and its handler starts in the free slot t
Accept(t) ==
    /\ phase = "run" /\ tasks[t].pc = "idle"
    /\ calls < MaxCalls
    /\ calls' = calls + 1
    /\ UNCHANGED <<phase, settings, now>>

\* validation, _build_session_id, then TmuxBackend.create_session, whose
\* new_session fails on a duplicate session name
create_session_call(t, dir, title, kind) ==
    /\ Accept(t)
    /\ LET sid == build_session_id(sessions, dir, title, kind)
       IN  IF ~dir.is_dir
           THEN /\ tasks' = Finish(t, "create_session", "", "ValueError")
                /\ tmux' = tmux
           ELSE IF sid \in DOMAIN tmux
           THEN /\ tasks' = Finish(t, "create_session", sid, "TmuxError")
                /\ tmux' = tmux
           ELSE /\ tasks' = [tasks EXCEPT ![t] =
                               [IdleTask EXCEPT !.op = "create_session",
                                   !.pc = "r_create", !.sid = sid, !.wd = dir.path,
                                   !.kind = kind]]
                /\ tmux' = Put(tmux, sid, Pane(dir.path))
    /\ UNCHANGED <<mgrVars, log, sent, kills, clipboard, pushVars, loop>>

create_session_register(t) ==
    /\ tasks[t].op = "create_session" /\ tasks[t].pc = "r_create"
    /\ sessions' = DictSet(sessions, SessionInfo(tasks[t].sid, tasks[t].kind,
                                                  tasks[t].wd, TRUE, NoneTs))
    /\ agents' = agents \cup {tasks[t].sid}
    /\ tasks' = Return(t, "ok")
    /\ UNCHANGED <<envVars, last_output, last_tail, last_history_size, log, tmux,
                   sent, kills, clipboard, pushVars, loop>>

(***************************************************************************)
(* SessionManager.kill_session                                             *)
(***************************************************************************)
\* _require_session, then TmuxBackend.kill_session
kill_session_call(t, sid) ==
    /\ Accept(t)
    /\ IF ~require_session(sessions, sid)
       THEN /\ tasks' = Finish(t, "kill_session", sid, "KeyError")
            /\ UNCHANGED <<tmux, kills>>
       ELSE /\ tasks' = Begin(t, "kill_session", sid, "r_kill")
            /\ tmux' = tmux_kill_session(tmux, sid)
            /\ kills' = Put(kills, sid, Count(kills, sid) + 1)
    /\ UNCHANGED <<mgrVars, log, sent, clipboard, pushVars, loop>>

kill_session_finish(t) ==
    /\ tasks[t].op = "kill_session" /\ tasks[t].pc = "r_kill"
    /\ sessions' = mark_dead(sessions, tasks[t].sid, now)
    /\ last_output' = Pop(last_output, tasks[t].sid)
    /\ last_history_size' = Pop(last_history_size, tasks[t].sid)
    /\ last_tail' = Pop(last_tail, tasks[t].sid)
    /\ agents' = agents \ {tasks[t].sid}
    /\ tasks' = Return(t, "ok")
    /\ UNCHANGED <<envVars, log, tmux, sent, kills, clipboard, pushVars, loop>>

(***************************************************************************)
(* SessionManager.list_sessions / get_session                              *)
(***************************************************************************)
\* the for loop without its `if not info.is_alive: continue`
NextAny(S, pos) == IF pos < Len(S) THEN pos + 1 ELSE 0

\* the next entry at a position > pos that is_alive, 0 when the for loop ends
NextAlive(S, pos) ==
    LET later == {i \in DOMAIN S : i > pos /\ S[i].is_alive}
    IN  IF later = {} THEN 0 ELSE CHOOSE i \in later : \A j \in later : i <= j

\* the for loop of list_sessions from position pos up to its next await (with
\* TmuxBackend.is_alive called) or its return; the dict iterator raises when the
\* dict's size differs from its size at the start of the loop
list_sessions_advance(frame, S, T) ==
    IF Len(S) # frame.size
    THEN [frame EXCEPT !.pc = "ret", !.res = "RuntimeError"]
    ELSE IF NextAlive(S, frame.pos) = 0
    THEN [frame EXCEPT !.pc = "ret", !.res = "ok",
                       !.out = [i \in DOMAIN S |-> S[i].session_id]]
    ELSE [frame EXCEPT !.pc = "r_alive", !.pos = NextAlive(S, frame.pos),
                       !.sid = S[NextAlive(S, frame.pos)].session_id,
                       !.flag = tmux_is_alive(T, S[NextAlive(S, frame.pos)].session_id)]

list_sessions_call(t) ==
    /\ Accept(t)
    /\ tasks' = [tasks EXCEPT ![t] =
                    list_sessions_advance(
                        [IdleTask EXCEPT !.op = "list_sessions",
                                         !.size = Len(sessions)],
                        sessions, tmux)]
    /\ UNCHANGED <<mgrVars, log, tmux, sent, kills, clipboard, pushVars, loop>>

list_sessions_resume(t) ==
    /\ tasks[t].op = "list_sessions" /\ tasks[t].pc = "r_alive"
    /\ sessions' = IF tasks[t].flag THEN sessions
                   ELSE mark_dead(sessions, tasks[t].sid, now)
    /\ tasks' = [tasks EXCEPT ![t] = list_sessions_advance(tasks[t], sessions', tmux)]
    /\ UNCHANGED <<envVars, agents, last_output, last_tail, last_history_size, log,
                   tmux, sent, kills, clipboard, pushVars, loop>>

get_session_call(t, sid) ==
    /\ Accept(t)
    /\ tasks' = IF ~require_session(sessions, sid)
                THEN Finish(t, "get_session", sid, "KeyError")
                ELSE IF Info(sid).is_alive
                THEN [tasks EXCEPT ![t] =
                        [IdleTask EXCEPT !.op = "get_session", !.sid = sid,
                            !.pc = "r_alive", !.flag = tmux_is_alive(tmux, sid)]]
                ELSE Finish(t, "get_session", sid, "ok")
    /\ UNCHANGED <<mgrVars, log, tmux, sent, kills, clipboard, pushVars, loop>>

get_session_resume(t) ==
    /\ tasks[t].op = "get_session" /\ tasks[t].pc = "r_alive"
    /\ sessions' = IF tasks[t].flag THEN sessions
                   ELSE mark_dead(sessions, tasks[t].sid, now)
    /\ tasks' = Return(t, "ok")
    /\ UNCHANGED <<envVars, agents, last_output, last_tail, last_history_size, log,
                   tmux, sent, kills, clipboard, pushVars, loop>>

(***************************************************************************)
(* SessionManager.remove_dead_session (no await: one segment)              *)
(***************************************************************************)
remove_dead_session(t, sid) ==
    /\ Accept(t)
    /\ IF ~require_session(sessions, sid)
       THEN /\ tasks' = Finish(t, "remove_dead_session", sid, "KeyError")
            /\ UNCHANGED <<sessions, last_output, agents, log>>
       ELSE IF Info(sid).is_alive
       THEN /\ tasks' = Finish(t, "remove_dead_session", sid, "ValueError")
            /\ UNCHANGED <<sessions, last_output, agents, log>>
       ELSE /\ log' = log_soft_delete(log, sid)
            /\ sessions' = SeqFilterOut(sessions, sid)
            /\ last_output' = Pop(last_output, sid)
            /\ agents' = agents \ {sid}
            /\ tasks' = Finish(t, "remove_dead_session", sid, "ok")
    /\ UNCHANGED <<last_tail, last_history_size, tmux, sent, kills,
                   clipboard, pushVars, loop>>

(***************************************************************************)
(* SessionManager.capture_output                                           *)
(***************************************************************************)
\* _require_session, then TmuxBackend.capture_pane, which raises ValueError
\* when the session is gone
capture_output_call(t, sid) ==
    /\ Accept(t)
    /\ tasks' = IF ~require_session(sessions, sid)
                THEN Finish(t, "capture_output", sid, "KeyError")
                ELSE IF sid \notin DOMAIN tmux
                THEN Finish(t, "capture_output", sid, "ValueError")
                ELSE [tasks EXCEPT ![t] =
                        [IdleTask EXCEPT !.op = "capture_output", !.sid = sid,
                            !.pc = "r_pane", !.text = tmux_capture_pane(tmux, sid)]]
    /\ UNCHANGED <<mgrVars, log, tmux, sent, kills, clipboard, pushVars, loop>>

capture_output_finish(t) ==
    /\ tasks[t].op = "capture_output" /\ tasks[t].pc = "r_pane"
    /\ last_output' = Put(last_output, tasks[t].sid, tasks[t].text)
    /\ tasks' = [tasks EXCEPT ![t].pc = "ret", ![t].res = "ok",
                    ![t].flag = (tasks[t].text #
                                   (IF tasks[t].sid \in DOMAIN last_output
                                    THEN last_output[tasks[t].sid] ELSE ""))]
    /\ UNCHANGED <<envVars, sessions, agents, last_tail, last_history_size, log, tmux,
                   sent, kills, clipboard, pushVars, loop>>

(***************************************************************************)
(* SessionManager.send_input / send_raw_keys / paste_image / send_selection*)
(***************************************************************************)
\* TmuxBackend.send_keys called by request number `call`: `sent` keeps every
\* call, ok tells whether the session was there (the call raises ValueError
\* when it was not)
send_keys(S, T, name, keys, enter, literal, call) ==
    Append(S, [session |-> name, keys |-> keys, enter |-> enter,
               literal |-> literal, call |-> call, ok |-> name \in DOMAIN T])

\* _require_alive_session, _get_agent, expand_shortcut, then the first send_keys
send_input_call(t, sid, text) ==
    /\ Accept(t)
    /\ LET check == require_alive_session(sessions, sid)
           expanded == expand_shortcut(text)
       IN  IF check # "ok"
           THEN /\ tasks' = Finish(t, "send_input", sid,
                                   IF check = "not_found" THEN "KeyError"
                                   ELSE "ValueError")
                /\ UNCHANGED <<agents, sent>>
           ELSE /\ agents' = agents \cup {sid}
                /\ sent' = IF expanded.some
                           THEN send_keys(sent, tmux, sid, expanded.keys,
                                          expanded.enter, FALSE, calls + 1)
                           ELSE send_keys(sent, tmux, sid, JoinChars(text), FALSE,
                                          TRUE, calls + 1)
                /\ tasks' = [tasks EXCEPT ![t] =
                               [IdleTask EXCEPT !.op = "send_input", !.sid = sid,
                                   !.pc = IF expanded.some THEN "r_keys" ELSE "r_text",
                                   !.call = calls + 1, !.keys = text,
                                   !.flag = sid \in DOMAIN tmux]]
    /\ UNCHANGED <<sessions, last_output, last_tail, last_history_size, log, tmux,
                   kills, clipboard, pushVars, loop>>

\* after the literal text and asyncio.sleep(0.15): the separate Enter
send_input_enter(t) ==
    /\ tasks[t].op = "send_input" /\ tasks[t].pc = "r_text"
    /\ IF ~tasks[t].flag
       THEN /\ tasks' = Return(t, "ValueError")
            /\ sent' = sent
       ELSE /\ sent' = send_keys(sent, tmux, tasks[t].sid, "Enter", FALSE, FALSE,
                                 tasks[t].call)
            /\ tasks' = [tasks EXCEPT ![t].pc = "r_keys",
                                      ![t].flag = tasks[t].sid \in DOMAIN tmux]
    /\ UNCHANGED <<envVars, mgrVars, log, tmux, kills, clipboard, pushVars, loop>>

send_raw_keys_call(t, sid, keys, enter) ==
    /\ Accept(t)
    /\ LET check == require_alive_session(sessions, sid)
       IN  IF check # "ok"
           THEN /\ tasks' = Finish(t, "send_raw_keys", sid,
                                   IF check = "not_found" THEN "KeyError"
                                   ELSE "ValueError")
                /\ sent' = sent
           ELSE /\ sent' = send_keys(sent, tmux, sid, keys, enter, TRUE, calls + 1)
                /\ tasks' = [tasks EXCEPT ![t] =
                               [IdleTask EXCEPT !.op = "send_raw_keys", !.sid = sid,
                                   !.pc = "r_keys", !.call = calls + 1,
                                   !.flag = sid \in DOMAIN tmux]]
    /\ UNCHANGED <<mgrVars, log, tmux, kills, clipboard, pushVars, loop>>

\* _require_alive_session, then copy_image_to_clipboard, which raises
\* RuntimeError when the clipboard tool fails (works = FALSE)
paste_image_call(t, sid, path, works) ==
    /\ Accept(t)
    /\ LET check == require_alive_session(sessions, sid)
       IN  IF check # "ok"
           THEN /\ tasks' = Finish(t, "paste_image", sid,
                                   IF check = "not_found" THEN "KeyError"
                                   ELSE "ValueError")
                /\ clipboard' = clipboard
           ELSE /\ clipboard' = IF works THEN path ELSE clipboard
                /\ tasks' = [tasks EXCEPT ![t] =
                               [IdleTask EXCEPT !.op = "paste_image", !.sid = sid,
                                   !.pc = "r_clip", !.call = calls + 1,
                                   !.flag = works]]
    /\ UNCHANGED <<mgrVars, log, tmux, sent, kills, pushVars, loop>>

\* after asyncio.sleep(0.1): C-v
paste_image_send(t) ==
    /\ tasks[t].op = "paste_image" /\ tasks[t].pc = "r_clip"
    /\ IF ~tasks[t].flag
       THEN /\ tasks' = Return(t, "RuntimeError")
            /\ sent' = sent
       ELSE /\ sent' = send_keys(sent, tmux, tasks[t].sid, "C-v", FALSE, FALSE,
                                 tasks[t].call)
            /\ tasks' = [tasks EXCEPT ![t].pc = "r_keys",
                                      ![t].flag = tasks[t].sid \in DOMAIN tmux]
    /\ UNCHANGED <<envVars, mgrVars, log, tmux, kills, clipboard, pushVars, loop>>

\* the await of the last send_keys of send_input, send_raw_keys or paste_image
\* returns or raises
send_keys_resume(t) ==
    /\ tasks[t].op \in {"send_input", "send_raw_keys", "paste_image"}
    /\ tasks[t].pc = "r_keys"
    /\ tasks' = Return(t, IF tasks[t].flag THEN "ok" ELSE "ValueError")
    /\ UNCHANGED <<envVars, mgrVars, log, tmux, sent, kills, clipboard, pushVars, loop>>

\* the search for item_number that always settles on the first item
find_target_first(parsed, item_number) ==
    IF parsed.items = <<>> THEN {} ELSE {1}

\* target_index of send_selection: the indices (from 1) of the items whose number
\* is item_number; empty for None
find_target(parsed, item_number) ==
    {i \in DOMAIN parsed.items : parsed.items[i].number = item_number}

\* _require_alive_session, then TmuxBackend.capture_pane; freeform_text "" is
\* None
send_selection_call(t, sid, item_number, freeform_text) ==
    /\ Accept(t)
    /\ LET check == require_alive_session(sessions, sid)
       IN  tasks' =
             IF check # "ok"
             THEN Finish(t, "send_selection", sid,
                         IF check = "not_found" THEN "KeyError" ELSE "ValueError")
             ELSE [tasks EXCEPT ![t] =
                     [IdleTask EXCEPT !.op = "send_selection", !.sid = sid,
                         !.pc = "r_pane", !.call = calls + 1, !.pos = item_number,
                         !.text = freeform_text,
                         !.flag = sid \in DOMAIN tmux,
                         !.lines = IF sid \in DOMAIN tmux THEN tmux[sid].screen
                                   ELSE <<>>]]
    /\ UNCHANGED <<mgrVars, log, tmux, sent, kills, clipboard, pushVars, loop>>

\* parse, the search for item_number, and `parsed.arrow_navigable`: ParsedOutput
\* (models.py) declares no such field and ignores the keyword the detector
\* passes, so reading it raises AttributeError and no key is ever sent
send_selection_parse(t) ==
    /\ tasks[t].op = "send_selection" /\ tasks[t].pc = "r_pane"
    /\ LET parsed == parse(tasks[t].lines)
           target == find_target(parsed, tasks[t].pos)
       IN  tasks' = Return(t, IF ~tasks[t].flag \/ target = {} THEN "ValueError"
                              ELSE "AttributeError")
    /\ UNCHANGED <<envVars, mgrVars, log, tmux, sent, kills, clipboard, pushVars, loop>>

\* the caller takes the result; the slot is free again
task_return(t) ==
    /\ tasks[t].pc = "ret"
    /\ tasks' = [tasks EXCEPT ![t] = IdleTask]
    /\ UNCHANGED <<envVars, mgrVars, log, tmux, sent, kills, clipboard, pushVars, loop>>

(***************************************************************************)
(* main._capture_loop with SessionManager.capture_to_log / _capture_final. *)
(* The loop's frame: ids are the sessions of this tick still to capture.   *)
(***************************************************************************)
\* capture_to_log without its is_process_dead branch: a pane whose process has
\* exited is captured like a running one
LoopEnterAlive(ids, T) ==
    IF ids = <<>> THEN IdleLoop
    ELSE [IdleLoop EXCEPT !.pc = "r_hsize", !.ids = Tail(ids), !.sid = Head(ids),
                          !.hsize = tmux_get_history_size(T, Head(ids))]

\* TmuxBackend.capture_scrollback for capture_to_log; it raises when the session
\* is gone, and the loop's except clause goes on with the next session
RECURSIVE LoopEnter(_, _)
\* the for loop of _capture_loop enters capture_to_log for its next session, up to
\* the await of get_history_size (process alive) or of _capture_final's
\* capture_scrollback (process dead); back to sleep after the last session
LoopEnter(ids, T) ==
    IF ids = <<>> THEN IdleLoop
    ELSE IF tmux_is_process_dead(T, Head(ids))
    THEN [IdleLoop EXCEPT !.pc = "r_final", !.ids = Tail(ids), !.sid = Head(ids),
                          !.dead = TRUE,
                          !.lines = tmux_capture_scrollback(T, Head(ids))]
    ELSE [IdleLoop EXCEPT !.pc = "r_hsize", !.ids = Tail(ids), !.sid = Head(ids),
                          !.hsize = tmux_get_history_size(T, Head(ids))]

capture_loop_tick ==
    /\ phase = "run" /\ loop.pc = "sleep"
    /\ loop' = LoopEnter(active_session_ids(sessions), tmux)
    /\ UNCHANGED <<envVars, mgrVars, log, tmux, sent, kills, clipboard, pushVars, tasks>>

\* the tick with its try around the whole for loop: a capture that raises ends
\* the tick
capture_to_log_scroll_abort ==
    /\ loop.pc = "r_hsize"
    /\ loop' = IF loop.sid \in DOMAIN last_history_size
                  /\ last_history_size[loop.sid] = loop.hsize
               THEN LoopEnter(loop.ids, tmux)
               ELSE IF loop.sid \notin DOMAIN tmux
               THEN IdleLoop
               ELSE [loop EXCEPT !.pc = "r_scroll",
                                 !.lines = tmux_capture_scrollback(tmux, loop.sid)]
    /\ UNCHANGED <<envVars, mgrVars, log, tmux, sent, kills, clipboard, pushVars, tasks>>

\* capture_to_log without the test of the stored history size: every tick reads
\* the scrollback
capture_to_log_scroll_always ==
    /\ loop.pc = "r_hsize"
    /\ loop' = IF loop.sid \notin DOMAIN tmux
               THEN LoopEnter(loop.ids, tmux)
               ELSE [loop EXCEPT !.pc = "r_scroll",
                                 !.lines = tmux_capture_scrollback(tmux, loop.sid)]
    /\ UNCHANGED <<envVars, mgrVars, log, tmux, sent, kills, clipboard, pushVars, tasks>>

\* prev_size is not None and history_size == prev_size: nothing scrolled;
\* otherwise TmuxBackend.capture_scrollback
capture_to_log_scroll ==
    /\ loop.pc = "r_hsize"
    /\ loop' = IF loop.sid \in DOMAIN last_history_size
                  /\ last_history_size[loop.sid] = loop.hsize
               THEN LoopEnter(loop.ids, tmux)
               ELSE IF loop.sid \notin DOMAIN tmux
               THEN LoopEnter(loop.ids, tmux)
               ELSE [loop EXCEPT !.pc = "r_scroll",
                                 !.lines = tmux_capture_scrollback(tmux, loop.sid)]
    /\ UNCHANGED <<envVars, mgrVars, log, tmux, sent, kills, clipboard, pushVars, tasks>>

capture_to_log_finish ==
    /\ loop.pc = "r_scroll"
    /\ LET scrollback == Prefix(loop.lines, loop.hsize)
       IN  IF scrollback = <<>>
           THEN /\ last_history_size' = Put(last_history_size, loop.sid, loop.hsize)
                /\ UNCHANGED <<log, last_tail>>
           ELSE /\ log' = log_append(log, loop.sid,
                                     delta_lines(last_tail, loop.sid, scrollback), now)
                /\ last_tail' = Put(last_tail, loop.sid, scrollback)
                /\ last_history_size' = Put(last_history_size, loop.sid, loop.hsize)
    /\ loop' = LoopEnter(loop.ids, tmux)
    /\ UNCHANGED <<envVars, sessions, agents, last_output, tmux, sent, kills,
                   clipboard, pushVars, tasks>>

\* _capture_final up to its await of TmuxBackend.kill_session
capture_final_append ==
    /\ loop.pc = "r_final"
    /\ log' = log_append(log, loop.sid, final_lines(last_tail, loop.sid, loop.lines),
                         now)
    /\ tmux' = tmux_kill_session(tmux, loop.sid)
    /\ kills' = Put(kills, loop.sid, Count(kills, loop.sid) + 1)
    /\ loop' = [loop EXCEPT !.pc = "r_kill"]
    /\ UNCHANGED <<envVars, mgrVars, sent, clipboard, pushVars, tasks>>

capture_final_finish ==
    /\ loop.pc = "r_kill"
    /\ sessions' = mark_dead(sessions, loop.sid, now)
    /\ last_tail' = Pop(last_tail, loop.sid)
    /\ last_history_size' = Pop(last_history_size, loop.sid)
    /\ last_output' = Pop(last_output, loop.sid)
    /\ agents' = agents \ {loop.sid}
    /\ loop' = LoopEnter(loop.ids, tmux)
    /\ UNCHANGED <<envVars, log, tmux, sent, kills, clipboard, pushVars, tasks>>

(***************************************************************************)
(* The lifecycle specification: startup, the registry operations run by    *)
(* concurrent requests, the capture loop, and the environment.             *)
(***************************************************************************)
ScrollLines == {"a"}

InitWith(slots) ==
    /\ phase = "boot"
    /\ now = 1
    /\ sessions = <<>>
    /\ agents = {}
    /\ last_output = EmptyDict
    /\ last_tail = EmptyDict
    /\ last_history_size = EmptyDict
    /\ \E boot \in BootConfigs :
          /\ tmux = boot.tmux
          /\ log = boot.log
          /\ settings = [rehydrate_dir_whitelist |-> boot.whitelist]
    /\ sent = <<>>
    /\ kills = EmptyDict
    /\ clipboard = ""
    /\ last_state = EmptyDict
    /\ subs = <<>>
    /\ pushes = <<>>
    /\ tasks = [t \in slots |-> IdleTask]
    /\ loop = IdleLoop
    /\ calls = 0

Init == InitWith(TaskIds)

LifeDirs == {d \in Dirs : d.path \in {"/x/a", "/nope"}}

\* the request handlers running in the slots; create_session is accepted only
\* while the registry has fewer than `room` entries
Requests(slots, dirs, titles, room) ==
    \E t \in slots :
        \/ /\ Len(sessions) < room
           /\ \E dir \in dirs, title \in titles, kind \in AgentTypes :
                 create_session_call(t, dir, title, kind)
        \/ create_session_register(t)
        \/ \E sid \in SidInputs : kill_session_call(t, sid)
        \/ kill_session_finish(t)
        \/ list_sessions_call(t)
        \/ list_sessions_resume(t)
        \/ \E sid \in SidInputs : get_session_call(t, sid)
        \/ get_session_resume(t)
        \/ \E sid \in SidInputs : remove_dead_session(t, sid)
        \/ \E sid \in SidInputs : capture_output_call(t, sid)
        \/ capture_output_finish(t)
        \/ task_return(t)

CaptureLoop ==
    \/ capture_loop_tick
    \/ capture_to_log_scroll
    \/ capture_to_log_finish
    \/ capture_final_append
    \/ capture_final_finish

Environment ==
    \/ \E name \in DOMAIN tmux, line \in ScrollLines : env_output(name, line, MaxScroll)
    \/ \E name \in DOMAIN tmux : env_exit(name)
    \/ \E name \in DOMAIN tmux : env_gone(name)

Next ==
    \/ lifespan_rehydrate
    \/ Tick
    \/ Requests(TaskIds, LifeDirs, {<<>>}, MaxSessions)
    \/ CaptureLoop
    \/ Environment

Spec == Init /\ [][Next]_vars

(***************************************************************************)
(* Properties of the lifecycle specification.                              *)
(***************************************************************************)
Creating(sid) ==
    \E t \in DOMAIN tasks :
        tasks[t].op = "create_session" /\ tasks[t].pc = "r_create" /\ tasks[t].sid = sid

\* C1: over the steps of kill_session, of the liveness re-checks of list_sessions
\* and get_session and of the capture loop, a registered session that is dead
\* stays dead for as long as it stays registered (is_alive goes from true to
\* false once and never back), and its ended_at is never changed again.  A
\* create_session that is about to register the same id is not such a step.
C1_DeadIsFinal ==
    [][\A i \in DOMAIN sessions :
          (/\ ~sessions[i].is_alive
           /\ sessions[i].session_id \in Keys(sessions')
           /\ ~Creating(sessions[i].session_id))
          => /\ ~InfoIn(sessions', sessions[i].session_id).is_alive
             /\ InfoIn(sessions', sessions[i].session_id).ended_at
                    = sessions[i].ended_at]_vars

\* a second kill_session has run to its end on a session that died earlier
C1_SecondKillDone ==
    \E i \in DOMAIN sessions :
        /\ ~sessions[i].is_alive
        /\ sessions[i].ended_at # NoneTs
        /\ sessions[i].ended_at < now
        /\ Count(kills, sessions[i].session_id) >= 2
        /\ loop.pc # "r_kill"
        /\ \A t \in DOMAIN tasks : tasks[t].pc # "r_kill"

\* C2: every registered session has is_alive = false exactly when its ended_at is
\* set: a dead session has an ended_at and a live one has none, whether it was
\* created, killed, found dead by a liveness check or by the final capture, or
\* registered by the startup rehydration.
C2_AliveIffNoEndedAt ==
    \A i \in DOMAIN sessions : sessions[i].is_alive <=> sessions[i].ended_at = NoneTs

\* a rehydrated dead session next to one that died while the server ran
C2_DeadBothWays ==
    \E i, j \in DOMAIN sessions :
        /\ ~sessions[i].is_alive /\ sessions[i].working_dir = "(unknown)"
        /\ ~sessions[j].is_alive /\ sessions[j].working_dir # "(unknown)"

\* C7: a registered session that is dead has no runtime entry: no last visible
\* pane, no last scrollback, no last history size and no adapter.
C7_DeadHasNoRuntime ==
    \A i \in DOMAIN sessions :
        ~sessions[i].is_alive
        => /\ sessions[i].session_id \notin agents
           /\ sessions[i].session_id \notin DOMAIN last_output
           /\ sessions[i].session_id \notin DOMAIN last_tail
           /\ sessions[i].session_id \notin DOMAIN last_history_size

\* C8: kill_session called on a registered session that is already dead fails
\* with ValueError (conflict), asks the backend to kill nothing and leaves the
\* registry unchanged.
C8_KillDeadFailsConflict ==
    [][\A t \in DOMAIN tasks :
          (/\ tasks[t].pc = "idle"
           /\ tasks'[t].op = "kill_session"
           /\ tasks'[t].pc # "idle"
           /\ Registered(tasks'[t].sid)
           /\ ~Info(tasks'[t].sid).is_alive)
          => /\ tasks'[t].pc = "ret"
             /\ tasks'[t].res = "ValueError"
             /\ kills' = kills
             /\ tmux' = tmux
             /\ sessions' = sessions]_vars

Called(t, op) == tasks[t].pc = "idle" /\ tasks'[t].op = op /\ tasks'[t].pc # "idle"

\* C9: remove_dead_session on a live session fails with ValueError and leaves the
\* registry and the log as they were; on a dead session it archives every chunk
\* of that session, leaves the other chunks alone, and drops the session (and
\* only it) from the registry.  An id that is not registered is not returned by
\* list_sessions, and kill_session, get_session, remove_dead_session and
\* capture_output on it fail with KeyError (not-found) and change nothing.
C9_RemoveDeadSession ==
    [][\A t \in DOMAIN tasks :
          /\ (Called(t, "remove_dead_session") /\ Registered(tasks'[t].sid)
                /\ Info(tasks'[t].sid).is_alive)
             => /\ tasks'[t].pc = "ret" /\ tasks'[t].res = "ValueError"
                /\ sessions' = sessions /\ log' = log
          /\ (Called(t, "remove_dead_session") /\ Registered(tasks'[t].sid)
                /\ ~Info(tasks'[t].sid).is_alive)
             => /\ tasks'[t].pc = "ret" /\ tasks'[t].res = "ok"
                /\ Keys(sessions') = Keys(sessions) \ {tasks'[t].sid}
                /\ \A x \in Keys(sessions') : InfoIn(sessions', x) = InfoIn(sessions, x)
                /\ Len(log') = Len(log)
                /\ \A k \in DOMAIN log :
                      log'[k] = IF log[k].session_id = tasks'[t].sid
                                THEN [log[k] EXCEPT !.archived = TRUE] ELSE log[k]
          /\ ((Called(t, "kill_session") \/ Called(t, "get_session")
                 \/ Called(t, "remove_dead_session") \/ Called(t, "capture_output"))
                /\ ~Registered(tasks'[t].sid))
             => /\ tasks'[t].pc = "ret" /\ tasks'[t].res = "KeyError"
                /\ sessions' = sessions /\ log' = log /\ tmux' = tmux
          /\ (tasks[t].pc # "ret" /\ tasks'[t].pc = "ret"
                /\ tasks'[t].op = "list_sessions" /\ tasks'[t].res = "ok")
             => {tasks'[t].out[k] : k \in DOMAIN tasks'[t].out} = Keys(sessions')]_vars

\* a dead session with a chunk was removed, and a later call on its id has failed
C9_RemovedThenNotFound ==
    \E t, u \in DOMAIN tasks :
        /\ tasks[t].op = "remove_dead_session" /\ tasks[t].pc = "ret"
        /\ tasks[t].res = "ok"
        /\ tasks[u].op \in {"kill_session", "get_session", "capture_output"}
        /\ tasks[u].pc = "ret" /\ tasks[u].res = "KeyError"
        /\ tasks[u].sid = tasks[t].sid
        /\ ~Registered(tasks[t].sid)
        /\ \E k \in DOMAIN log : log[k].session_id = tasks[t].sid /\ log[k].archived

(***************************************************************************)
(* The sequential specification: one client, each request run to its end   *)
(* before the next one starts, directories and titles of every kind.       *)
(***************************************************************************)
InitSeq == InitWith({"t1"})

NextSeq ==
    \/ lifespan_rehydrate
    \/ Requests({"t1"}, Dirs, Titles, MaxSeqSessions)

SpecSeq == InitSeq /\ [][NextSeq]_vars

\* C10: create_session never takes an id that is registered, live or dead: the id
\* is the base agent-<kind>-<slug> when no registered session has that id or the
\* same working directory, and otherwise the base followed by -N for the
\* smallest N >= 2 such that base-N is not registered; registering it adds one
\* entry and leaves every existing entry as it was.
C10_FreshSessionId ==
    [][\A t \in DOMAIN tasks :
          /\ \A dir \in Dirs, title \in Titles, kind \in AgentTypes :
                (create_session_call(t, dir, title, kind) /\ tasks'[t].pc = "r_create")
                => LET base == base_id(dir, title, kind)
                       used == Keys(sessions)
                       clash == base \in used
                                \/ \E i \in DOMAIN sessions :
                                      sessions[i].working_dir = dir.path
                       id == tasks'[t].sid
                   IN  /\ id \notin used
                       /\ ~clash => id = base
                       /\ clash =>
                            \E N \in 2 .. (Len(sessions) + 2) :
                               /\ id = base \o "-" \o ToString(N)
                               /\ \A M \in 2 .. (N - 1) :
                                     (base \o "-" \o ToString(M)) \in used
          /\ (tasks[t].op = "create_session" /\ tasks[t].pc = "r_create"
                /\ tasks'[t].pc = "ret")
             => /\ tasks[t].sid \notin Keys(sessions)
                /\ Keys(sessions') = Keys(sessions) \cup {tasks[t].sid}
                /\ Len(sessions') = Len(sessions) + 1
                /\ \A x \in Keys(sessions) : InfoIn(sessions', x) = InfoIn(sessions, x)
                /\ tasks'[t].res = "ok"]_vars

\* the suffix search has passed an id in use: -2 was taken by a titled session of
\* another directory, so the second session of /x/a got -3
C10_SuffixSkipsUsed ==
    \E i, j, k \in DOMAIN sessions :
        /\ sessions[i].session_id = "agent-claude-a"
        /\ sessions[j].session_id = "agent-claude-a-2"
        /\ sessions[j].working_dir = "/y/A!"
        /\ sessions[k].session_id = "agent-claude-a-3"
        /\ sessions[k].working_dir = "/x/a"

(***************************************************************************)
(* The capture specification: the capture loop alone with the panes, whose *)
(* processes print lines (blank ones too) and exit.                        *)
(***************************************************************************)
CaptureLines == {"a", ""}

InitCapture == InitWith({})

EnvironmentCapture ==
    \/ \E name \in DOMAIN tmux, line \in CaptureLines :
          env_output(name, line, MaxCaptureScroll)
    \/ \E name \in DOMAIN tmux : env_exit(name)
    \/ \E name \in DOMAIN tmux : env_gone(name)

NextCapture ==
    \/ lifespan_rehydrate
    \/ Tick
    \/ CaptureLoop
    \/ EnvironmentCapture

SpecCapture == InitCapture /\ [][NextCapture]_vars

RECURSIVE LogText(_, _)
\* the contents of the chunks of sid in append order, joined line by line
LogText(L, sid) ==
    IF L = <<>> THEN <<>>
    ELSE IF L[Len(L)].session_id = sid
    THEN Append(LogText(SubSeq(L, 1, Len(L) - 1), sid), L[Len(L)].content)
    ELSE LogText(SubSeq(L, 1, Len(L) - 1), sid)

\* C5: for a session whose process has not died and whose scrollback only grows
\* at its end, the lines written to the log for it, chunk after chunk, are the
\* scrollback seen by the latest capture: none is lost and none is written twice.
C5_DeltaLossless ==
    \A sid \in DOMAIN last_tail :
        (sid \in DOMAIN tmux /\ ~tmux[sid].dead)
        => JoinLines(LogText(log, sid)) = JoinLines(last_tail[sid])

\* the lines of buf after the first place the last lines of prev occur in it
AfterOverlap(prev, buf) ==
    LET K == Min2(FINGERPRINT_SIZE, Len(prev))
        fp == SubSeq(prev, Len(prev) - K + 1, Len(prev))
        at == {i \in 0 .. (Len(buf) - K) : SubSeq(buf, i + 1, i + K) = fp}
    IN  IF prev = <<>> \/ at = {} THEN buf
        ELSE SubSeq(buf, (CHOOSE i \in at : \A j \in at : i <= j) + K + 1, Len(buf))

Texts == { <<"h", "i">>, <<" ", "U", "p", " ">> }
ItemNumbers == {1, 2, 3}
\* "" is no freeform_text
FreeformTexts == {"", "more"}
Screens ==
    { <<"$">>,
      <<"Pick one:", "> 1. Yes", "  2. No", "Enter to select">>,
      <<"Pick one:", "  1. Yes", "  2. No">> }

InitSend == InitWith(TaskIds)

\* the ids of SidInputs and one that is never registered
SendIds == SidInputs \cup {"agent-claude-zz"}

SendRequests ==
    \E t \in TaskIds :
        \/ \E sid \in SendIds, text \in Texts : send_input_call(t, sid, text)
        \/ send_input_enter(t)
        \/ \E sid \in SendIds : send_raw_keys_call(t, sid, "0", TRUE)
        \/ \E sid \in SendIds, works \in BOOLEAN :
              paste_image_call(t, sid, "/tmp/i.png", works)
        \/ paste_image_send(t)
        \/ send_keys_resume(t)
        \/ \E sid \in SendIds, n \in ItemNumbers, ff \in FreeformTexts :
              send_selection_call(t, sid, n, ff)
        \/ send_selection_parse(t)
        \/ \E sid \in SendIds : kill_session_call(t, sid)
        \/ kill_session_finish(t)
        \/ task_return(t)

NextSend ==
    \/ lifespan_rehydrate
    \/ SendRequests
    \/ \E name \in DOMAIN tmux, screen \in Screens : env_screen(name, screen)

SpecSend == InitSend /\ [][NextSend]_vars

SendOps == {"send_input", "send_selection", "send_raw_keys", "paste_image"}

\* C3: send_input, send_selection, send_raw_keys and paste_image called on a
\* registered session that is dead fail with ValueError (conflict), and called on
\* an id that is not registered fail with KeyError (not-found); either way no
\* send_keys call is made and no state of a session changes.
C3_SendNeedsLive ==
    [][\A t \in DOMAIN tasks :
          (\E op \in SendOps : Called(t, op))
          => /\ (Registered(tasks'[t].sid) /\ ~Info(tasks'[t].sid).is_alive)
                => /\ tasks'[t].pc = "ret" /\ tasks'[t].res = "ValueError"
                   /\ sent' = sent /\ mgrVars' = mgrVars /\ tmux' = tmux
                   /\ clipboard' = clipboard
             /\ ~Registered(tasks'[t].sid)
                => /\ tasks'[t].pc = "ret" /\ tasks'[t].res = "KeyError"
                   /\ sent' = sent /\ mgrVars' = mgrVars /\ tmux' = tmux
                   /\ clipboard' = clipboard]_vars

\* a send to a session that was killed has failed next to a send to an unknown id
C3_DeadAndUnknownRefused ==
    \E t, u \in DOMAIN tasks :
        /\ tasks[t].op \in SendOps /\ tasks[t].pc = "ret"
        /\ tasks[t].res = "ValueError"
        /\ Registered(tasks[t].sid) /\ ~Info(tasks[t].sid).is_alive
        /\ Count(kills, tasks[t].sid) = 1
        /\ tasks[u].op \in SendOps /\ tasks[u].pc = "ret"
        /\ tasks[u].res = "KeyError"
        /\ ~Registered(tasks[u].sid)
        /\ sent = <<>>

\* C4: the keys of one send operation reach a session as one block: between two
\* keys of an operation no key of another operation arrives at that session.
C4_SendsAreContiguous ==
    \A i, j, k \in DOMAIN sent :
        (/\ i < j /\ j < k
         /\ sent[i].ok /\ sent[j].ok /\ sent[k].ok
         /\ sent[i].call = sent[k].call
         /\ sent[j].session = sent[i].session)
        => sent[j].call = sent[i].call

(***************************************************************************)
(* What the send operations hand to TmuxBackend.send_keys.                 *)
(***************************************************************************)
\* the send_keys calls of request number c, in call order
SentBy(c) ==
    LET s == SelectSeq(sent, LAMBDA r : r.call = c)
    IN  [i \in DOMAIN s |->
            [keys |-> s[i].keys, enter |-> s[i].enter, literal |-> s[i].literal]]

Key(k) == [keys |-> k, enter |-> FALSE, literal |-> FALSE]
Literal(txt, enter) == [keys |-> txt, enter |-> enter, literal |-> TRUE]
Repeat(x, n) == [i \in 1 .. n |-> x]
Abs(d) == IF d < 0 THEN -d ELSE d

\* a finished send_selection whose pane was captured and holds item_number
SelectionDone(t) ==
    /\ tasks[t].op = "send_selection" /\ tasks[t].pc = "ret"
    /\ tasks[t].flag
    /\ \E i \in DOMAIN parse(tasks[t].lines).items :
          parse(tasks[t].lines).items[i].number = tasks[t].pos

\* the keys that choose item n on the pane: arrows to the item and Enter when the
\* list shows a cursor marker, the item's digits and Enter when it does not
ChoiceKeys(lines, n) ==
    LET parsed == parse(lines)
        target == CHOOSE i \in DOMAIN parsed.items : parsed.items[i].number = n
        d == (target - 1) - parsed.selected_index
    IN  IF has_marker(StripTrailing(SplitLines(lines)))
        THEN Repeat(Key(IF d > 0 THEN "Down" ELSE "Up"), Abs(d)) \o <<Key("Enter")>>
        ELSE <<Literal(ToString(n), FALSE), Key("Enter")>>

\* C11: a send_selection on a live session whose pane parses to a selection that
\* holds item_number succeeds, and the keys it sent are exactly: with a cursor
\* marker |d| Down (d > 0) or Up (d < 0) presses and one Enter, without a marker
\* the digits of item_number and one Enter.
C11_SelectionKeySequence ==
    \A t \in DOMAIN tasks :
        (SelectionDone(t) /\ tasks[t].text = "")
        => /\ tasks[t].res = "ok"
           /\ SentBy(tasks[t].call) = ChoiceKeys(tasks[t].lines, tasks[t].pos)

\* C12: a send_selection whose captured pane holds no item numbered item_number
\* (a pane that is no selection has no items) fails with ValueError (bad-input)
\* and has sent no key.
C12_UnknownItemIsBadInput ==
    [][\A t \in DOMAIN tasks :
          (/\ tasks[t].op = "send_selection" /\ tasks[t].pc = "r_pane"
           /\ tasks'[t].pc = "ret"
           /\ tasks[t].flag
           /\ ~\E i \in DOMAIN parse(tasks[t].lines).items :
                 parse(tasks[t].lines).items[i].number = tasks[t].pos)
          => /\ tasks'[t].res = "ValueError"
             /\ sent' = sent
             /\ SentBy(tasks[t].call) = <<>>]_vars

\* item 3 was refused on a two-item selection, and an item on a pane that is no
\* selection
C12_RefusedOnSelectionAndPrompt ==
    \E t, u \in DOMAIN tasks :
        /\ tasks[t].op = "send_selection" /\ tasks[t].pc = "ret" /\ tasks[t].flag
        /\ tasks[t].res = "ValueError"
        /\ parse(tasks[t].lines).state = "selection"
        /\ Len(parse(tasks[t].lines).items) = 2 /\ tasks[t].pos = 3
        /\ tasks[u].op = "send_selection" /\ tasks[u].pc = "ret" /\ tasks[u].flag
        /\ tasks[u].res = "ValueError"
        /\ parse(tasks[u].lines).state = "prompt"
        /\ sent = <<>>

\* C13: a send_input that succeeded made one send_keys call, the table's keys with
\* the table's enter flag, when its text trimmed and lower-cased is in the
\* shortcut table; otherwise two: the text, literal and without Enter, then Enter.
C13_SendInputSends ==
    \A t \in DOMAIN tasks :
        (tasks[t].op = "send_input" /\ tasks[t].pc = "ret" /\ tasks[t].res = "ok")
        => SentBy(tasks[t].call) =
              IF StripLower(tasks[t].keys) \in DOMAIN SHORTCUTS
              THEN <<[keys |-> SHORTCUTS[StripLower(tasks[t].keys)].keys,
                      enter |-> SHORTCUTS[StripLower(tasks[t].keys)].enter,
                      literal |-> FALSE]>>
              ELSE <<Literal(JoinChars(tasks[t].keys), FALSE), Key("Enter")>>

\* " Up " went out as the one key Up and "hi" as a literal followed by Enter
C13_ShortcutAndText ==
    \E t, u \in DOMAIN tasks :
        /\ tasks[t].op = "send_input" /\ tasks[t].pc = "ret" /\ tasks[t].res = "ok"
        /\ tasks[t].keys = <<" ", "U", "p", " ">>
        /\ SentBy(tasks[t].call) = <<Key("Up")>>
        /\ tasks[u].op = "send_input" /\ tasks[u].pc = "ret" /\ tasks[u].res = "ok"
        /\ tasks[u].keys = <<"h", "i">>
        /\ Len(SentBy(tasks[u].call)) = 2

\* C14: a send_selection given a freeform_text succeeds, and its last send_keys
\* call is the text, literal and with Enter, right after the Enter that confirms
\* the chosen item.
C14_FreeformTextLast ==
    \A t \in DOMAIN tasks :
        (SelectionDone(t) /\ tasks[t].text # "")
        => /\ tasks[t].res = "ok"
           /\ SentBy(tasks[t].call) =
                 ChoiceKeys(tasks[t].lines, tasks[t].pos)
                    \o <<Literal(tasks[t].text, TRUE)>>

\* C15: every chunk in the output log has non-empty content, whichever way it was
\* inserted (a capture tick, the final capture): an append whose lines join to
\* no content inserts nothing.
C15_ChunksAreNonEmpty ==
    \A i \in DOMAIN log : log[i].content # ""

(***************************************************************************)
(* AgentOutputLog read, search and session_ids, and the history request    *)
(* of api/sessions.py.  A chunk's id is its position in `log`: ids are      *)
(* handed out in insert order and no row is ever deleted.                   *)
(***************************************************************************)
Reverse(seq) == [i \in DOMAIN seq |-> seq[Len(seq) + 1 - i]]

RECURSIVE InsertByTs(_, _, _)
\* row i put into rows that are in the order of the index on (session_id, ts):
\* by ts, rows of equal ts by id
InsertByTs(L, rows, i) ==
    IF rows = <<>> THEN <<i>>
    ELSE LET last == rows[Len(rows)]
         IN  IF L[last].ts < L[i].ts \/ (L[last].ts = L[i].ts /\ last < i)
             THEN Append(rows, i)
             ELSE Append(InsertByTs(L, SubSeq(rows, 1, Len(rows) - 1), i), last)

RECURSIVE OrderByTs(_, _, _)
\* the rows idxs among the first k rows of the table, in index order
OrderByTs(L, idxs, k) ==
    IF k = 0 THEN <<>>
    ELSE IF k \in idxs THEN InsertByTs(L, OrderByTs(L, idxs, k - 1), k)
    ELSE OrderByTs(L, idxs, k - 1)

\* LIMIT n: a negative LIMIT is no limit in SQLite
Limit(rows, n) == IF n < 0 THEN rows ELSE SubSeq(rows, 1, Min2(n, Len(rows)))

\* ORDER BY ts DESC LIMIT n over the rows idxs: the index is walked backwards
TakeNewest(L, idxs, n) == Limit(Reverse(OrderByTs(L, idxs, Len(L))), n)

TakeOldest(L, idxs, n) == Limit(OrderByTs(L, idxs, Len(L)), n)

HistoryPage(L, ids) ==
    [chunks |-> ids, earliest_ts |-> IF ids = <<>> THEN NoneTs ELSE L[ids[1]].ts]

\* read that forgets its archived = 0
log_read_archived(L, sid, before, limit) ==
    HistoryPage(L, Reverse(TakeNewest(L,
        {i \in DOMAIN L : L[i].session_id = sid /\ (before = NoneTs \/ L[i].ts < before)},
        limit)))

\* read with ORDER BY ts ASC
log_read_oldest(L, sid, before, limit) ==
    HistoryPage(L, TakeOldest(L,
        {i \in DOMAIN L : /\ L[i].session_id = sid /\ ~L[i].archived
                          /\ (before = NoneTs \/ L[i].ts < before)},
        limit))

\* AgentOutputLog.read; before = NoneTs is before = None
log_read(L, sid, before, limit) ==
    HistoryPage(L, Reverse(TakeNewest(L,
        {i \in DOMAIN L : /\ L[i].session_id = sid /\ ~L[i].archived
                          /\ (before = NoneTs \/ L[i].ts < before)},
        limit)))

\* the line lists handed to append
LogLineSeqs == { <<>>, <<"a">>, <<"a", "b">> }

\* content MATCH query: query is one of the words of the content
Matches(content, query) ==
    \E ls \in LogLineSeqs : JoinLines(ls) = content /\ \E i \in DOMAIN ls : ls[i] = query

\* AgentOutputLog.search, sid "" for session_id = None: the sets of rows it can
\* return; which rows ORDER BY f.rank puts first, and their order, is left open
log_search(L, query, sid, limit) ==
    LET hits == {i \in DOMAIN L : /\ Matches(L[i].content, query)
                                  /\ ~L[i].archived
                                  /\ (sid = "" \/ L[i].session_id = sid)}
        n == IF limit < 0 \/ limit > Cardinality(hits) THEN Cardinality(hits) ELSE limit
    IN  {R \in SUBSET hits : Cardinality(R) = n}

\* AgentOutputLog.append called on its own
output_log_append(sid, lines, bound) ==
    /\ phase = "run"
    /\ Len(log) < bound
    /\ log' = log_append(log, sid, lines, now)
    /\ UNCHANGED <<envVars, mgrVars, tmux, sent, kills, clipboard, pushVars, tasks, loop>>

\* AgentOutputLog.soft_delete called on its own
output_log_soft_delete(sid) ==
    /\ phase = "run"
    /\ log' = log_soft_delete(log, sid)
    /\ UNCHANGED <<envVars, mgrVars, tmux, sent, kills, clipboard, pushVars, tasks, loop>>

Answer(t, op, sid, out) ==
    [tasks EXCEPT ![t] = [IdleTask EXCEPT !.op = op, !.pc = "ret", !.res = "ok",
                                          !.sid = sid, !.out = out]]

output_log_read(t, sid, before, limit) ==
    /\ Accept(t)
    /\ LET page == log_read(log, sid, before, limit)
       IN  tasks' = [Answer(t, "read", sid, page.chunks) EXCEPT
                        ![t].ts = page.earliest_ts, ![t].before = before,
                        ![t].limit = limit]
    /\ UNCHANGED <<mgrVars, log, tmux, sent, kills, clipboard, pushVars, loop>>

output_log_search(t, query, sid, limit) ==
    /\ Accept(t)
    /\ \E R \in log_search(log, query, sid, limit) :
          tasks' = [Answer(t, "search", sid, SetToSeq(R)) EXCEPT
                       ![t].query = query, ![t].limit = limit]
    /\ UNCHANGED <<mgrVars, log, tmux, sent, kills, clipboard, pushVars, loop>>

output_log_session_ids(t) ==
    /\ Accept(t)
    /\ tasks' = Answer(t, "session_ids", "", log_session_ids(log))
    /\ UNCHANGED <<mgrVars, log, tmux, sent, kills, clipboard, pushVars, loop>>

HISTORY_LIMIT == 200

\* _get_history: limit = min(limit, 200), then AgentOutputLog.read
get_history(t, sid, before, limit) ==
    /\ Accept(t)
    /\ LET page == log_read(log, sid, before, Min2(limit, HISTORY_LIMIT))
       IN  tasks' = [Answer(t, "get_history", sid, page.chunks) EXCEPT
                        ![t].ts = page.earliest_ts, ![t].before = before,
                        ![t].limit = limit]
    /\ UNCHANGED <<mgrVars, log, tmux, sent, kills, clipboard, pushVars, loop>>

(***************************************************************************)
(* The log specification: appends and soft deletes on the output log, and  *)
(* one client that reads, searches and lists it.                           *)
(***************************************************************************)
MaxLogChunks == 3

LogIds == {"agent-claude-a", "agent-claude-old"}
Befores == {NoneTs, 2}
ReadLimits == {0, 1, 2}
SearchLimits == {1, 20}
Queries == {"a", "b"}

InitLog == InitWith({"t1"})

LogWrites ==
    \/ \E sid \in LogIds, lines \in LogLineSeqs :
          output_log_append(sid, lines, MaxLogChunks)
    \/ \E sid \in LogIds : output_log_soft_delete(sid)

LogReads ==
    \E t \in {"t1"} :
        \/ \E sid \in LogIds, before \in Befores, limit \in ReadLimits :
              output_log_read(t, sid, before, limit)
        \/ \E query \in Queries, sid \in LogIds \cup {""}, limit \in SearchLimits :
              output_log_search(t, query, sid, limit)
        \/ output_log_session_ids(t)
        \/ task_return(t)

NextLog ==
    \/ lifespan_rehydrate
    \/ Tick
    \/ LogWrites
    \/ LogReads

SpecLog == InitLog /\ [][NextLog]_vars

Range(seq) == {seq[i] : i \in DOMAIN seq}

\* C16: session_ids() returns, without repeats, exactly the session ids that have
\* at least one chunk that is not archived.
C16_SessionIdsAreLive ==
    [][\A t \in DOMAIN tasks :
          Called(t, "session_ids")
          => /\ Range(tasks'[t].out)
                  = {log[i].session_id : i \in {j \in DOMAIN log : ~log[j].archived}}
             /\ \A k, l \in DOMAIN tasks'[t].out :
                   tasks'[t].out[k] = tasks'[t].out[l] => k = l]_vars

\* session_ids was answered with one id while the other session had only archived
\* chunks
C16_ArchivedIdLeftOut ==
    /\ tasks["t1"].op = "session_ids" /\ tasks["t1"].pc = "ret"
    /\ tasks["t1"].out = <<"agent-claude-a">>
    /\ \E i \in DOMAIN log : log[i].session_id = "agent-claude-old" /\ log[i].archived
    /\ \A i \in DOMAIN log : log[i].session_id = "agent-claude-old" => log[i].archived
    /\ \E i \in DOMAIN log : log[i].session_id = "agent-claude-a" /\ ~log[i].archived

\* every chunk of session s is archived: soft_delete(s) ran and no append for s
\* came after it
Hidden(s) ==
    /\ \E i \in DOMAIN log : log[i].session_id = s
    /\ \A i \in DOMAIN log : log[i].session_id = s => log[i].archived

\* C17: after soft_delete(s) and until a later append for s, read(s) returns no
\* chunk, search returns no chunk of s, and session_ids() does not list s; and
\* soft_delete(s) changes nothing that read, search and session_ids return for
\* another session.
C17_SoftDeleteHides ==
    [][/\ \A t \in DOMAIN tasks :
             /\ (Called(t, "read") /\ Hidden(tasks'[t].sid))
                => tasks'[t].out = <<>> /\ tasks'[t].ts = NoneTs
             /\ Called(t, "search")
                => \A k \in DOMAIN tasks'[t].out :
                      ~Hidden(log[tasks'[t].out[k]].session_id)
             /\ Called(t, "session_ids")
                => \A k \in DOMAIN tasks'[t].out : ~Hidden(tasks'[t].out[k])
       /\ \A s \in LogIds :
             (log' # log /\ output_log_soft_delete(s))
             => /\ Range(log_session_ids(log')) = Range(log_session_ids(log)) \ {s}
                /\ \A o \in LogIds \ {s} :
                      /\ \A before \in Befores, limit \in ReadLimits :
                            log_read(log', o, before, limit)
                               = log_read(log, o, before, limit)
                      /\ \A query \in Queries, limit \in SearchLimits :
                            log_search(log', query, o, limit)
                               = log_search(log, query, o, limit)
                /\ \A query \in Queries :
                      log_search(log', query, "", Len(log))
                         = {{i \in R : log[i].session_id # s} :
                               R \in log_search(log, query, "", Len(log))}]_vars

\* a read of a soft-deleted session came back empty while the log holds its
\* archived chunks next to a live chunk of another session
C17_ReadOfHiddenIsEmpty ==
    /\ tasks["t1"].op = "read" /\ tasks["t1"].pc = "ret"
    /\ tasks["t1"].limit > 0 /\ tasks["t1"].before = NoneTs
    /\ tasks["t1"].out = <<>>
    /\ Hidden(tasks["t1"].sid)
    /\ \E i \in DOMAIN log : log[i].session_id # tasks["t1"].sid /\ ~log[i].archived

MaxHistoryChunks == 201

HistoryLimits == {-1, 1, 200, 201}

InitHistory == InitWith({"t1"})

NextHistory ==
    \/ lifespan_rehydrate
    \/ output_log_append("agent-claude-a", <<"a">>, MaxHistoryChunks)
    \/ \E t \in {"t1"} :
          \/ \E limit \in HistoryLimits :
                get_history(t, "agent-claude-a", NoneTs, limit)
          \/ task_return(t)

SpecHistory == InitHistory /\ [][NextHistory]_vars

\* C19: a history request returns at most 200 chunks, whatever integer its limit
\* parameter is.
C19_HistoryAtMost200 ==
    \A t \in DOMAIN tasks :
        (tasks[t].op = "get_history" /\ tasks[t].pc = "ret")
        => Len(tasks[t].out) <= HISTORY_LIMIT

(***************************************************************************)
(* The pane specification: clients ask for the live pane of the sessions   *)
(* (GET output, mode=live) while the agent redraws or clears its screen.   *)
(***************************************************************************)
\* <<>> is a cleared pane: capture_pane joins no line, the text is ""
PaneScreens == { <<>>, <<"$">>, <<"$", "a">> }

InitPane == InitWith(TaskIds)

NextPane ==
    \/ lifespan_rehydrate
    \/ \E t \in TaskIds :
          \/ \E sid \in SidInputs : capture_output_call(t, sid)
          \/ capture_output_finish(t)
          \/ task_return(t)
    \/ \E name \in DOMAIN tmux, screen \in PaneScreens : env_screen(name, screen)

SpecPane == InitPane /\ [][NextPane]_vars

\* C20: a capture_output that succeeds stores the captured text and returns it;
\* its changed flag is true when it is the first capture of the session (no text
\* of the session was stored before), and otherwise true exactly when the text
\* differs from the stored one, which the previous capture returned.
C20_ChangedAgainstPrevious ==
    [][\A t \in DOMAIN tasks :
          capture_output_finish(t)
          => /\ tasks'[t].res = "ok"
             /\ last_output'[tasks[t].sid] = tasks'[t].text
             /\ tasks'[t].flag =
                   IF tasks[t].sid \in DOMAIN last_output
                   THEN tasks'[t].text # last_output[tasks[t].sid]
                   ELSE TRUE]_vars

(***************************************************************************)
(* api/sessions.py: GET /{session_id}/output with mode=live.  The frame    *)
(* keeps the response: status, and body "pane" (the rendered pane with the *)
(* ui-state fragment), "ended" (the Session ended notice) or "" (none).    *)
(***************************************************************************)
Respond(t, status, body) ==
    [tasks EXCEPT ![t].pc = "ret", ![t].res = "ok", ![t].status = status,
                  ![t].body = body]

\* an exception the handler maps (KeyError: 404) or lets through (500)
Fail(t, exc, status) ==
    [tasks EXCEPT ![t].pc = "ret", ![t].res = exc, ![t].status = status,
                  ![t].body = ""]

\* get_session up to its await of TmuxBackend.is_alive; a DEAD session gets the
\* Session ended notice at once
get_output_call(t, sid, force) ==
    /\ Accept(t)
    /\ LET frame == [IdleTask EXCEPT !.op = "get_output", !.sid = sid,
                                     !.force = force, !.call = calls + 1]
       IN  tasks' =
             IF ~require_session(sessions, sid)
             THEN [tasks EXCEPT ![t] = [frame EXCEPT !.pc = "ret", !.res = "KeyError",
                                                     !.status = 404]]
             ELSE IF Info(sid).is_alive
             THEN [tasks EXCEPT ![t] = [frame EXCEPT !.pc = "o_alive",
                                           !.flag = tmux_is_alive(tmux, sid)]]
             ELSE [tasks EXCEPT ![t] = [frame EXCEPT !.pc = "ret", !.res = "ok",
                                           !.status = 200, !.body = "ended"]]
    /\ UNCHANGED <<mgrVars, log, tmux, sent, kills, clipboard, pushVars, loop>>

\* get_session marks the session dead when the backend lost it; then
\* `if not info.is_alive`, and capture_output up to its await of capture_pane
get_output_alive(t) ==
    /\ tasks[t].op = "get_output" /\ tasks[t].pc = "o_alive"
    /\ sessions' = IF tasks[t].flag THEN sessions
                   ELSE mark_dead(sessions, tasks[t].sid, now)
    /\ tasks' =
         IF ~require_session(sessions', tasks[t].sid)
            \/ ~InfoIn(sessions', tasks[t].sid).is_alive
         THEN Respond(t, 200, "ended")
         ELSE IF tasks[t].sid \notin DOMAIN tmux
         THEN Fail(t, "ValueError", 500)
         ELSE [tasks EXCEPT ![t].pc = "o_pane",
                            ![t].lines = tmux[tasks[t].sid].screen,
                            ![t].text = tmux_capture_pane(tmux, tasks[t].sid)]
    /\ UNCHANGED <<envVars, agents, last_output, last_tail, last_history_size, log,
                   tmux, sent, kills, clipboard, pushVars, loop>>

\* the rest of capture_output, the 204 test, parse_output, and send_raw_keys up
\* to its await of send_keys; an exception of send_raw_keys is caught and logged
get_output_capture(t) ==
    /\ tasks[t].op = "get_output" /\ tasks[t].pc = "o_pane"
    /\ LET sid == tasks[t].sid
           content == tasks[t].text
           previous == IF sid \in DOMAIN last_output THEN last_output[sid] ELSE ""
           changed == content # previous
           parsed == parse(tasks[t].lines)
           frame == [tasks EXCEPT ![t].changed = changed]
       IN  /\ last_output' = Put(last_output, sid, content)
           /\ IF ~tasks[t].force /\ ~changed /\ content # ""
              THEN /\ tasks' = [frame EXCEPT ![t].pc = "ret", ![t].res = "ok",
                                             ![t].status = 204, ![t].body = ""]
                   /\ sent' = sent
              ELSE IF parsed.auto_response = ""
                      \/ require_alive_session(sessions, sid) # "ok"
              THEN /\ tasks' = [frame EXCEPT ![t].pc = "ret", ![t].res = "ok",
                                             ![t].status = 200, ![t].body = "pane"]
                   /\ sent' = sent
              ELSE /\ sent' = send_keys(sent, tmux, sid, parsed.auto_response, FALSE,
                                        TRUE, tasks[t].call)
                   /\ tasks' = [frame EXCEPT ![t].pc = "o_keys"]
    /\ UNCHANGED <<envVars, sessions, agents, last_tail, last_history_size, log, tmux,
                   kills, clipboard, pushVars, loop>>

\* the await of send_raw_keys returns or raises: either way the pane is answered
get_output_finish(t) ==
    /\ tasks[t].op = "get_output" /\ tasks[t].pc = "o_keys"
    /\ tasks' = Respond(t, 200, "pane")
    /\ UNCHANGED <<envVars, mgrVars, log, tmux, sent, kills, clipboard, pushVars, loop>>

(***************************************************************************)
(* The poll specification: clients poll the live pane of the sessions, a   *)
(* debug request captures it, the agent redraws its screen, and the tmux   *)
(* session may be killed from outside.                                     *)
(***************************************************************************)
PollScreens == { <<>>, <<"$">>, <<"$", "1: Bad  2: Fine  3: Good  0: Dismiss">> }

InitPoll == InitWith(TaskIds)

PollRequests ==
    \E t \in TaskIds :
        \/ \E sid \in SidInputs, force \in BOOLEAN : get_output_call(t, sid, force)
        \/ get_output_alive(t)
        \/ get_output_capture(t)
        \/ get_output_finish(t)
        \/ \E sid \in SidInputs : capture_output_call(t, sid)
        \/ capture_output_finish(t)
        \/ task_return(t)

NextPoll ==
    \/ lifespan_rehydrate
    \/ PollRequests
    \/ \E name \in DOMAIN tmux, screen \in PollScreens : env_screen(name, screen)
    \/ \E name \in DOMAIN tmux : env_gone(name)

SpecPoll == InitPoll /\ [][NextPoll]_vars

\* C21: a live poll of a LIVE session whose pane was captured answers 204
\* without a body when the pane text is the one the previous capture stored and
\* force is false, and 200 with the rendered pane when the text changed or force
\* is true.
C21_UnchangedPollIs204 ==
    [][\A t \in DOMAIN tasks :
          get_output_capture(t)
          => LET sid == tasks[t].sid
                 unchanged == /\ sid \in DOMAIN last_output
                              /\ last_output[sid] = tasks[t].text
             IN  IF unchanged /\ ~tasks[t].force
                 THEN tasks'[t].pc = "ret" /\ tasks'[t].status = 204
                      /\ tasks'[t].body = ""
                 ELSE \/ tasks'[t].pc = "o_keys"
                      \/ tasks'[t].pc = "ret" /\ tasks'[t].status = 200
                         /\ tasks'[t].body = "pane"]_vars

\* C26: when a live poll of a LIVE session has captured a pane that parses with
\* an auto_response, that response has been sent to the session with
\* send_raw_keys (literal keys), and the poll is answered whether or not the send
\* succeeded.
C26_AutoResponseDispatched ==
    \A t \in DOMAIN tasks :
        (/\ tasks[t].op = "get_output" /\ tasks[t].pc = "ret"
         /\ tasks[t].body # "ended"
         /\ parse(tasks[t].lines).auto_response # ""
         /\ Registered(tasks[t].sid) /\ Info(tasks[t].sid).is_alive)
        => /\ tasks[t].status \in {200, 204}
           /\ \E k \in DOMAIN sent :
                 /\ sent[k].session = tasks[t].sid
                 /\ sent[k].keys = parse(tasks[t].lines).auto_response
                 /\ sent[k].literal

(***************************************************************************)
(* api/sessions.py: the status the POST input, select and image handlers   *)
(* answer with, from the way SessionManager's call ended.  An exception no *)
(* except clause names leaves the handler and is answered 500.             *)
(***************************************************************************)
http_status(op, res) ==
    CASE res = "ok" -> 200
      [] res = "KeyError" -> 404
      [] res = "ValueError" /\ op \in {"send_input", "paste_image"} -> 409
      [] res = "ValueError" /\ op = "send_selection" -> 400
      [] OTHER -> 500

LiveOnlyPosts == {"send_input", "send_selection", "paste_image"}

\* C22: POST input, POST select and POST image answer 409 when the session is
\* registered and dead, and 404 when the session id is not registered.
C22_DeadIs409UnknownIs404 ==
    [][\A t \in DOMAIN tasks :
          (\E op \in LiveOnlyPosts : Called(t, op))
          => /\ (Registered(tasks'[t].sid) /\ ~Info(tasks'[t].sid).is_alive)
                => /\ tasks'[t].pc = "ret"
                   /\ http_status(tasks'[t].op, tasks'[t].res) = 409
             /\ ~Registered(tasks'[t].sid)
                => /\ tasks'[t].pc = "ret"
                   /\ http_status(tasks'[t].op, tasks'[t].res) = 404]_vars

\* a step of list_sessions or get_session run by slot t
Rechecks(t) ==
    tasks'[t] # tasks[t] /\ tasks'[t].op \in {"list_sessions", "get_session"}

\* C23: list_sessions and get_session ask the backend about a session only while
\* the registry has it alive; they mark a session dead, stamping ended_at, exactly
\* when the backend's answer was that it is absent and the session is still
\* alive; an entry that is dead is never asked about and never changed.
C23_RecheckOnlyAlive ==
    [][\A t \in DOMAIN tasks :
          Rechecks(t)
          => /\ tasks'[t].pc = "r_alive"
                => \E i \in DOMAIN sessions' :
                      /\ sessions'[i].session_id = tasks'[t].sid
                      /\ sessions'[i].is_alive
             /\ Len(sessions') = Len(sessions)
             /\ \A i \in DOMAIN sessions :
                   sessions'[i] =
                      IF /\ sessions[i].is_alive
                         /\ tasks[t].pc = "r_alive" /\ ~tasks[t].flag
                         /\ sessions[i].session_id = tasks[t].sid
                      THEN [sessions[i] EXCEPT !.is_alive = FALSE, !.ended_at = now]
                      ELSE sessions[i]]_vars

\* list_sessions returned after it found the live session gone from the backend
\* and marked it dead, next to the dead session of the log it left alone
C23_ListMarkedTheLostOne ==
    \E t \in DOMAIN tasks :
        /\ tasks[t].op = "list_sessions" /\ tasks[t].pc = "ret" /\ tasks[t].res = "ok"
        /\ Len(sessions) = 2
        /\ Registered("agent-claude-a") /\ ~Info("agent-claude-a").is_alive
        /\ Info("agent-claude-a").ended_at = 2
        /\ Count(kills, "agent-claude-a") = 0
        /\ "agent-claude-a" \notin DOMAIN tmux
        /\ Registered("agent-claude-old") /\ ~Info("agent-claude-old").is_alive
        /\ Info("agent-claude-old").ended_at = 1

(***************************************************************************)
(* The restart specification: the process starts on what an earlier run    *)
(* left in the tmux server and the output log, serves kill and remove      *)
(* requests while the capture loop runs, and is stopped and started again. *)
(***************************************************************************)
BootCases ==
    { [tmux |-> [n \in {"agent-claude-a", "agent-claude-old", "work"} |->
                    IF n = "agent-claude-old" THEN Pane("/z/old") ELSE Pane("/x/a")],
       log |-> <<Chunk("agent-claude-old", 1, "x")>>,
       whitelist |-> {"/x"}],
      [tmux |-> [n \in {"agent-claude-a"} |-> Pane("/x/a")],
       log |-> <<Chunk("agent-claude-a", 1, "x"),
                 [Chunk("agent-claude-old", 1, "x") EXCEPT !.archived = TRUE]>>,
       whitelist |-> {}],
      [tmux |-> [n \in {"agent-claude-a", "agent-claude-old"} |->
                    IF n = "agent-claude-old" THEN Pane("/z/old") ELSE Pane("/x/a")],
       log |-> <<>>,
       whitelist |-> {}] }

InitBoot ==
    /\ phase = "boot"
    /\ now = 1
    /\ sessions = <<>>
    /\ agents = {}
    /\ last_output = EmptyDict
    /\ last_tail = EmptyDict
    /\ last_history_size = EmptyDict
    /\ \E boot \in BootCases :
          /\ tmux = boot.tmux
          /\ log = boot.log
          /\ settings = [rehydrate_dir_whitelist |-> boot.whitelist]
    /\ sent = <<>>
    /\ kills = EmptyDict
    /\ clipboard = ""
    /\ last_state = EmptyDict
    /\ subs = <<>>
    /\ pushes = <<>>
    /\ tasks = [t \in {"t1"} |-> IdleTask]
    /\ loop = IdleLoop
    /\ calls = 0

\* the process stops (the capture task is cancelled, requests in flight are
\* dropped) and a new one is started later: SessionManager is built anew, the
\* tmux server and the database file stay
lifespan_restart ==
    /\ phase = "run"
    /\ now < MaxTime
    /\ now' = now + 1
    /\ phase' = "boot"
    /\ sessions' = <<>>
    /\ agents' = {}
    /\ last_output' = EmptyDict
    /\ last_tail' = EmptyDict
    /\ last_history_size' = EmptyDict
    /\ tasks' = [t \in DOMAIN tasks |-> IdleTask]
    /\ loop' = IdleLoop
    /\ UNCHANGED <<settings, calls, log, tmux, sent, kills, clipboard, pushVars>>

BootRequests ==
    \E t \in {"t1"} :
        \/ \E sid \in SidInputs : kill_session_call(t, sid)
        \/ kill_session_finish(t)
        \/ \E sid \in SidInputs : remove_dead_session(t, sid)
        \/ task_return(t)

NextBoot ==
    \/ lifespan_rehydrate
    \/ lifespan_restart
    \/ Tick
    \/ BootRequests
    \/ CaptureLoop
    \/ \E name \in DOMAIN tmux, line \in ScrollLines : env_output(name, line, MaxScroll)
    \/ \E name \in DOMAIN tmux : env_exit(name)

SpecBoot == InitBoot /\ [][NextBoot]_vars

\* remove_dead_session archived the chunks of sid, and the backend has no session
\* of that id
Removed(sid) ==
    /\ \E i \in DOMAIN log : log[i].session_id = sid /\ log[i].archived
    /\ sid \notin DOMAIN tmux

\* C24: startup rehydration registers LIVE every backend session named agent-...
\* whose directory passes the whitelist, registers DEAD with ended_at = the
\* latest ts of its chunks every other id that has a chunk not archived, and
\* does not register a session that remove_dead_session removed before.
C24_Rehydration ==
    [][(phase = "boot" /\ phase' = "run")
       => LET live == {n \in DOMAIN tmux :
                         /\ StartsWithAgent(n)
                         /\ is_whitelisted_session_dir(
                               tmux[n].path, settings.rehydrate_dir_whitelist)}
              logged == {log[i].session_id : i \in {j \in DOMAIN log : ~log[j].archived}}
          IN  /\ \A n \in live :
                    /\ n \in Keys(sessions')
                    /\ InfoIn(sessions', n).is_alive
                    /\ InfoIn(sessions', n).ended_at = NoneTs
              /\ \A sid \in logged \ live :
                    /\ sid \in Keys(sessions')
                    /\ ~InfoIn(sessions', sid).is_alive
                    /\ \E i \in DOMAIN log :
                          /\ log[i].session_id = sid
                          /\ log[i].ts = InfoIn(sessions', sid).ended_at
                    /\ \A i \in DOMAIN log :
                          log[i].session_id = sid
                          => log[i].ts <= InfoIn(sessions', sid).ended_at
              /\ \A sid \in KnownIds : Removed(sid) => sid \notin Keys(sessions')]_vars

\* C25: a capture that fails for one session of a tick is caught: the tick goes
\* on to capture_to_log for the next session of its list, which holds every
\* session that was alive when the tick began, and after the last one the loop
\* sleeps again, ready for the next tick.
C25_TickGoesOn ==
    [][(loop' # loop /\ phase' = "run")
       => IF loop.pc = "sleep"
          THEN LET alive == {i \in DOMAIN sessions : sessions[i].is_alive}
                   listed == <<loop'.sid>> \o loop'.ids
               IN  IF alive = {} THEN loop'.pc = "sleep"
                   ELSE /\ loop'.pc \in {"r_hsize", "r_final"}
                        /\ Len(listed) = Cardinality(alive)
                        /\ {listed[k] : k \in DOMAIN listed}
                              = {sessions[i].session_id : i \in alive}
          ELSE \/ loop'.pc = "r_scroll" /\ loop'.sid = loop.sid
                  /\ loop'.ids = loop.ids /\ loop.sid \in DOMAIN tmux
               \/ loop'.pc = "r_kill" /\ loop'.sid = loop.sid /\ loop'.ids = loop.ids
               \/ loop.ids = <<>> /\ loop'.pc = "sleep"
               \/ /\ loop.ids # <<>>
                  /\ loop'.pc \in {"r_hsize", "r_final"}
                  /\ loop'.sid = Head(loop.ids) /\ loop'.ids = Tail(loop.ids)]_vars

\* the tick is capturing a second session after the capture of an earlier one,
\* alive in the registry and gone from the backend, raised
C25_SecondAfterFailure ==
    /\ loop.pc = "r_scroll"
    /\ \E i, j \in DOMAIN sessions :
          /\ i < j
          /\ sessions[i].is_alive /\ sessions[j].is_alive
          /\ sessions[j].session_id = loop.sid
          /\ sessions[i].session_id \notin DOMAIN tmux
          /\ sessions[i].session_id \notin DOMAIN last_history_size

(***************************************************************************)
(* The parser specification: SessionManager.parse_output applied to panes  *)
(* drawn from bounded sets of lines.                                       *)
(***************************************************************************)
MaxPaneLen == 4         \* lines of a pane of ShortPanes

ParseLines ==
    {"$", "Pick one:", "  1. Yes", "> 1. Yes", "  2. No", "> 2. No", "  0. Dismiss",
     "Enter to select"}

RECURSIVE SeqsUpTo(_, _)
\* the sequences over S of at most n elements
SeqsUpTo(S, n) ==
    IF n = 0 THEN {<<>>}
    ELSE LET shorter == SeqsUpTo(S, n - 1)
         IN  shorter \cup {Append(q, x) : q \in shorter, x \in S}

ShortPanes == SeqsUpTo(ParseLines, MaxPaneLen)

\* a selection list the agent showed earlier, still on the pane
OldBlocks ==
    { <<"Pick one:", "> 1. Yes", "  2. No", "  3. Type something">>,
      <<"  1. Yes", "> 2. No", "Enter to select">> }
\* what was printed between the two lists
BlockGaps == { <<>>, <<"$">>, <<"$", "">> }
\* the selection list the agent shows now
BottomBlocks ==
    { <<"Pick one:", "  1. Yes", "  2. No">>,
      <<"  1. Yes", "> 2. No", "Enter to select">>,
      <<"Pick one:", "> 1. Yes", "  2. No", "  3. Type something", "Enter to select">> }

StackedPanes ==
    {old \o gap \o bottom : old \in OldBlocks, gap \in BlockGaps, bottom \in BottomBlocks}

MaxTailLen == 5         \* lines below the last item of a pane of TailPanes

\* what a pane shows below the last item of its list
TailLines == {"", "Enter to select", "    desc", "$"}
ListHead == <<"Pick one:", "  1. Yes", "  2. No">>
TailPanes == {ListHead \o tail : tail \in SeqsUpTo(TailLines, MaxTailLen)}

MaxGapLen == 4          \* lines between the two items of a pane of GapPanes

\* what a pane shows between two items of its list
GapLines == {"", "---", "    desc", "Enter to select", "$"}
GapPanes ==
    {<<"Pick one:", "  1. Yes">> \o gap \o <<"  2. No", "Enter to select">> :
        gap \in SeqsUpTo(GapLines, MaxGapLen)}

MaxHeadLen == 3         \* lines above the first item of a pane of HeaderPanes

\* what a pane shows above the first item of its list, and below the last
HeadLines == {"", "Pick one:", "$"}
TwoItems == <<"  1. Yes", "  2. No">>
HeaderPanes ==
    {above \o TwoItems \o foot :
        above \in SeqsUpTo(HeadLines, MaxHeadLen),
        foot \in { <<>>, <<"Enter to select">> }}

\* a two-item list with question header, the cursor on any of its items or on
\* none, with and without the footer
MarkerPanes ==
    {<<"Pick one:", one, two>> \o foot :
        one \in {"  1. Yes", "> 1. Yes"}, two \in {"  2. No", "> 2. No"},
        foot \in { <<>>, <<"Enter to select">> }}

PaneTexts ==
    ShortPanes \cup StackedPanes \cup TailPanes \cup GapPanes \cup HeaderPanes
        \cup MarkerPanes

\* a request hands the pane text raw to SessionManager.parse_output
parse_output_call(t, raw) ==
    /\ Accept(t)
    /\ tasks' = [tasks EXCEPT ![t] = [IdleTask EXCEPT !.op = "parse_output",
                                                      !.pc = "p_raw", !.lines = raw]]
    /\ UNCHANGED <<mgrVars, log, tmux, sent, kills, clipboard, pushVars, loop>>

\* SessionManager.parse_output: the ParsedOutput of the detector in the frame
\* (res state, out items, pos selected_index, text auto_response)
parse_output(t) ==
    /\ tasks[t].pc = "p_raw"
    /\ LET parsed == parse(tasks[t].lines)
       IN  tasks' = [tasks EXCEPT ![t].pc = "ret", ![t].res = parsed.state,
                                  ![t].out = parsed.items,
                                  ![t].pos = parsed.selected_index,
                                  ![t].text = parsed.auto_response]
    /\ UNCHANGED <<envVars, mgrVars, log, tmux, sent, kills, clipboard, pushVars, loop>>

InitParse ==
    /\ phase = "run"
    /\ now = 1
    /\ sessions = <<>>
    /\ agents = {}
    /\ last_output = EmptyDict
    /\ last_tail = EmptyDict
    /\ last_history_size = EmptyDict
    /\ tmux = EmptyDict
    /\ log = <<>>
    /\ settings = [rehydrate_dir_whitelist |-> {}]
    /\ sent = <<>>
    /\ kills = EmptyDict
    /\ clipboard = ""
    /\ last_state = EmptyDict
    /\ subs = <<>>
    /\ pushes = <<>>
    /\ \E raw \in PaneTexts :
          tasks = [t \in {"t1"} |-> [IdleTask EXCEPT !.op = "parse_output",
                                                     !.pc = "p_raw", !.lines = raw]]
    /\ loop = IdleLoop
    /\ calls = 1

NextParse ==
    \/ \E raw \in PaneTexts : parse_output_call("t1", raw)
    \/ parse_output("t1")
    \/ task_return("t1")

SpecParse == InitParse /\ [][NextParse]_vars

Parsed(t) == tasks[t].op = "parse_output" /\ tasks[t].pc = "ret"

\* C27: a parse that returns SELECTION has at least two items, numbered 1..N in
\* increasing order without gap or repeat, and a selected_index that is an index
\* into items; a parse that returns WORKING or PROMPT has no items; a pane with a
\* single numbered item line and a footer parses as PROMPT.
C27_SelectionShape ==
    \A t \in DOMAIN tasks :
        Parsed(t)
        => /\ tasks[t].res = "selection"
              => /\ Len(tasks[t].out) >= 2
                 /\ \A k \in DOMAIN tasks[t].out : tasks[t].out[k].number = k
                 /\ tasks[t].pos \in 0 .. Len(tasks[t].out) - 1
           /\ tasks[t].res \in {"working", "prompt"} => tasks[t].out = <<>>
           /\ ( /\ Cardinality({i \in DOMAIN tasks[t].lines : IsItem(tasks[t].lines[i])}) = 1
                /\ \E i \in DOMAIN tasks[t].lines : IsFooter(tasks[t].lines[i])
                /\ \A i \in DOMAIN tasks[t].lines :
                      ~(IsSpinner(tasks[t].lines[i]) \/ IsCodexWorking(tasks[t].lines[i])
                        \/ IsSurvey(tasks[t].lines[i])) )
              => tasks[t].res = "prompt"

\* the items a selection block shows, read off its lines: item k is the line
\* numbered k
BlockItems(block) ==
    [k \in 1 .. Cardinality({i \in DOMAIN block : IsItem(block[i])}) |->
        LET i == CHOOSE j \in DOMAIN block : ItemNum(block[j]) = k
        IN  [number |-> k, label |-> ItemLabel(block[i]),
             is_freeform |-> IsFreeform(ItemLabel(block[i]))]]
\* the index in BlockItems of the item the block's cursor is on, 0 without cursor
BlockCursor(block) ==
    IF \E i \in DOMAIN block : HasMarker(block[i])
    THEN ItemNum(block[CHOOSE i \in DOMAIN block : HasMarker(block[i])]) - 1
    ELSE 0

\* C28: for a pane with an older selection block above and a newer valid selection
\* block at the bottom, parse returns SELECTION with exactly the items of the
\* bottom block and the bottom block's cursor: no item line of the older block
\* gives a number, a label or a cursor marker to the result.
C28_OnlyBottomBlock ==
    \A t \in DOMAIN tasks :
        Parsed(t)
        => \A old \in OldBlocks, gap \in BlockGaps, bottom \in BottomBlocks :
              tasks[t].lines = old \o gap \o bottom
              => /\ tasks[t].res = "selection"
                 /\ tasks[t].out = BlockItems(bottom)
                 /\ tasks[t].pos = BlockCursor(bottom)

\* a two-item list without cursor was parsed right below an older three-item list
\* with its cursor on item 1
C28_StaleListAbove ==
    \E t \in DOMAIN tasks :
        /\ Parsed(t)
        /\ tasks[t].lines = <<"Pick one:", "> 1. Yes", "  2. No", "  3. Type something",
                              "Pick one:", "  1. Yes", "  2. No">>
        /\ Len(tasks[t].out) = 2
        /\ tasks[t].pos = 0

\* the capture of loop.sid has the history size and finds it equal to the stored
\* one
NothingScrolled ==
    /\ loop.pc = "r_hsize"
    /\ loop.sid \in DOMAIN last_history_size
    /\ last_history_size[loop.sid] = loop.hsize

\* C29: when a capture tick of a session whose process is alive finds the
\* backend's history size equal to the stored last_history_size, the tick does not
\* read the scrollback, appends no chunk, and leaves last_tail and
\* last_history_size as they are.
C29_NothingScrolledNoCapture ==
    [][NothingScrolled /\ loop' # loop
       => /\ loop'.pc # "r_scroll"
          /\ loop'.lines = <<>> \/ loop'.sid # loop.sid
          /\ log' = log
          /\ last_tail' = last_tail
          /\ last_history_size' = last_history_size]_vars

\* a tick finds the history size of a session unchanged after an earlier tick
\* logged its scrollback
C29_SecondTickSameSize ==
    /\ NothingScrolled
    /\ loop.hsize > 0
    /\ loop.sid \in DOMAIN last_tail
    /\ \E i \in DOMAIN log : log[i].session_id = loop.sid

(***************************************************************************)
(* The reuse specification: one live session found at startup, which dies, *)
(* is removed, and whose directory gets a new session.                     *)
(***************************************************************************)
InitReuse ==
    /\ phase = "boot"
    /\ now = 1
    /\ sessions = <<>>
    /\ agents = {}
    /\ last_output = EmptyDict
    /\ last_tail = EmptyDict
    /\ last_history_size = EmptyDict
    /\ tmux = [n \in {"agent-claude-a"} |-> Pane("/x/a")]
    /\ log = <<>>
    /\ settings = [rehydrate_dir_whitelist |-> {"/x"}]
    /\ sent = <<>>
    /\ kills = EmptyDict
    /\ clipboard = ""
    /\ last_state = EmptyDict
    /\ subs = <<>>
    /\ pushes = <<>>
    /\ tasks = [t \in {"t1"} |-> IdleTask]
    /\ loop = IdleLoop
    /\ calls = 0

NextReuse ==
    \/ lifespan_rehydrate
    \/ Requests({"t1"}, LifeDirs, {<<>>}, MaxSessions)
    \/ CaptureLoop
    \/ Environment

SpecReuse == InitReuse /\ [][NextReuse]_vars

\* what capture_to_log does for session sid on registry state (T, tails, sizes):
\* it reads the scrollback and appends the whole slice
AppendsWholeSlice(sid, T, tails, sizes) ==
    LET history_size == tmux_get_history_size(T, sid)
        scrollback == Prefix(tmux_capture_scrollback(T, sid), history_size)
    IN  /\ ~(sid \in DOMAIN sizes /\ sizes[sid] = history_size)
        /\ delta_lines(tails, sid, scrollback) = scrollback

\* C30: the first capture tick of a session create_session has just registered
\* treats the whole scrollback slice as new and appends all of it, whatever
\* happened to the registry before, also when the id was that of a session that
\* died and was removed with remove_dead_session.  The tick is taken where it
\* is certain to be the session's first: the loop is asleep at the registration
\* and starts its tick in the state the registration leaves.
C30_FirstTickAppendsAll ==
    [][\A t \in DOMAIN tasks :
          /\ create_session_register(t)
          /\ ~Registered(tasks[t].sid)
          /\ loop.pc = "sleep"
          /\ tasks[t].sid \in DOMAIN tmux'
          /\ ~tmux_is_process_dead(tmux', tasks[t].sid)
          /\ tmux_get_history_size(tmux', tasks[t].sid) > 0
          => AppendsWholeSlice(tasks[t].sid, tmux', last_tail', last_history_size')]_vars

RECURSIVE EffectiveBottom(_)
\* the index of the last line of the pane that is neither blank nor chrome nor a
\* footer: the bottom the anchor's distance is counted from
EffectiveBottom(lines) ==
    IF lines # <<>> /\ (IsBlank(lines[Len(lines)]) \/ IsChrome(lines[Len(lines)])
                        \/ IsFooter(lines[Len(lines)]))
    THEN EffectiveBottom(SubSeq(lines, 1, Len(lines) - 1))
    ELSE Len(lines)

\* C31: the bottom-most item is accepted as anchor exactly when it is among the
\* last 5 lines up to the effective bottom of the pane (trailing blank, chrome
\* and footer lines skipped): a list with question header whose anchor is
\* farther up parses as PROMPT, one whose anchor is within that distance parses
\* as SELECTION.
C31_AnchorWithinFive ==
    \A t \in DOMAIN tasks :
        Parsed(t) /\ tasks[t].lines \in TailPanes
        => LET distance == EffectiveBottom(tasks[t].lines) - Len(ListHead)
           IN  /\ distance < AnchorReach => tasks[t].res = "selection"
               /\ distance >= AnchorReach => tasks[t].res = "prompt"

\* the lines between the two items that count toward the gap: all but blank
\* lines, horizontal rules, footer lines and description lines
GapCount(lines) ==
    Cardinality({i \in 3 .. Len(lines) - 2 :
                    ~(IsBlank(lines[i]) \/ IsHrule(lines[i]) \/ IsFooter(lines[i])
                      \/ IsDescription(lines[i]))})

\* C32: the upward walk collects the next item when it lies within 3 lines of
\* the item found below it, blank lines, horizontal rules, footer lines and
\* description lines in between not counted; only a larger gap of other lines
\* ends the walk.  On a two-item list with header and footer: both items are
\* returned exactly when fewer than 3 counted lines separate them.
C32_GapSkipsDecoration ==
    \A t \in DOMAIN tasks :
        Parsed(t) /\ tasks[t].lines \in GapPanes
        => /\ GapCount(tasks[t].lines) < GapLimit
              => tasks[t].res = "selection" /\ Len(tasks[t].out) = 2
           /\ GapCount(tasks[t].lines) >= GapLimit => tasks[t].res = "prompt"

\* the lines of `lines` that are not blank, in order
NonBlank(lines) == SelectSeq(lines, LAMBDA l : ~IsBlank(l))

\* one of the 2 non-blank lines immediately above line number `first` ends in
\* "?" or ":"
QuestionAbove(lines, first) ==
    LET above == NonBlank(SubSeq(lines, 1, first - 1))
    IN  \E k \in DOMAIN above : k > Len(above) - 2 /\ EndsWithQuestion(above[k])

\* C33: a structurally valid list (items 1..N, N >= 2, anchor near the bottom) is
\* returned as SELECTION exactly when the captured text has a footer line or one
\* of the 2 non-blank lines immediately above the first item ends in "?" or ":";
\* otherwise parse returns PROMPT.
C33_FooterOrQuestion ==
    \A t \in DOMAIN tasks :
        Parsed(t) /\ tasks[t].lines \in HeaderPanes
        => LET lines == tasks[t].lines
               first == CHOOSE i \in DOMAIN lines : ItemNum(lines[i]) = 1
               signal == \/ \E i \in DOMAIN lines : IsFooter(lines[i])
                         \/ QuestionAbove(lines, first)
           IN  /\ signal => tasks[t].res = "selection"
               /\ ~signal => tasks[t].res = "prompt"

\* C34: for a pane that shows a selection, if an item line carries a cursor
\* marker then parse returns arrow_navigable = true and selected_index = the
\* index of the marked item (the last marked one when several), whichever line of
\* the list carries it; without marker it returns arrow_navigable = false and
\* selected_index = 0.
C34_CursorReported ==
    \A t \in DOMAIN tasks :
        Parsed(t) /\ tasks[t].lines \in MarkerPanes
        => LET lines == tasks[t].lines
               marked == {ItemNum(lines[i]) : i \in {j \in DOMAIN lines : HasMarker(lines[j])}}
               parsed == parse(lines)
           IN  /\ tasks[t].res = "selection"
               /\ tasks[t].pos = IF marked # {} THEN Max(marked) - 1 ELSE 0
               /\ "arrow_navigable" \in DOMAIN parsed
               /\ parsed.arrow_navigable = (marked # {})

(***************************************************************************)
(* notifications/push.py: PushNotifier over PushSubscriptionStore.  A      *)
(* webpush call ends "ok", with a WebPushException of status 404/410       *)
(* ("gone") or with another WebPushException ("failed").                   *)
(***************************************************************************)
_NOTIFY_STATES == {"prompt", "selection"}

PushSubscription(endpoint, sid) == [endpoint |-> endpoint, session_id |-> sid]

\* PushSubscriptionStore.get_subscriptions_for_session
get_subscriptions_for_session(S, sid) == SelectSeq(S, LAMBDA x : x.session_id = sid)

\* PushSubscriptionStore.remove_endpoint for every endpoint of `gone`
remove_endpoints(S, gone) == SelectSeq(S, LAMBDA x : x.endpoint \notin gone)

\* what check_and_notify does once it has the previous state: the webpush calls
\* it makes, the store it leaves and the number it returns
Notify(prev, sid, state, outcome) ==
    LET mine == get_subscriptions_for_session(subs, sid)
    IN  IF state \notin _NOTIFY_STATES \/ prev = state \/ mine = <<>>
        THEN [calls |-> <<>>, subs |-> subs, sent |-> 0]
        ELSE [calls |-> mine,
              subs |-> remove_endpoints(subs,
                          {mine[i].endpoint : i \in {j \in DOMAIN mine :
                                                  outcome[mine[j].endpoint] = "gone"}}),
              sent |-> Cardinality({i \in DOMAIN mine : outcome[mine[i].endpoint] = "ok"})]

\* check_and_notify without `if prev == current_state: return 0`
check_and_notify_always(t, sid, state, outcome) ==
    /\ Accept(t)
    /\ LET done == Notify("none", sid, state, outcome)
       IN  /\ last_state' = Put(last_state, sid, state)
           /\ pushes' = pushes \o done.calls
           /\ subs' = done.subs
           /\ tasks' = [tasks EXCEPT ![t] =
                          [IdleTask EXCEPT !.op = "check_and_notify", !.pc = "ret",
                              !.sid = sid, !.text = state, !.res = "ok",
                              !.size = done.sent]]
    /\ UNCHANGED <<mgrVars, log, tmux, sent, kills, clipboard, loop>>

\* PushNotifier.check_and_notify; "none" is the None of _last_state.get; the
\* frame keeps prev in kind, current_state in text and the result in size
check_and_notify(t, sid, state, outcome) ==
    /\ Accept(t)
    /\ LET prev == IF sid \in DOMAIN last_state THEN last_state[sid] ELSE "none"
           done == Notify(prev, sid, state, outcome)
       IN  /\ last_state' = Put(last_state, sid, state)
           /\ pushes' = pushes \o done.calls
           /\ subs' = done.subs
           /\ tasks' = [tasks EXCEPT ![t] =
                          [IdleTask EXCEPT !.op = "check_and_notify", !.pc = "ret",
                              !.sid = sid, !.text = state, !.kind = prev,
                              !.res = "ok", !.size = done.sent]]
    /\ UNCHANGED <<mgrVars, log, tmux, sent, kills, clipboard, loop>>

\* PushNotifier.forget_session
forget_session(t, sid) ==
    /\ Accept(t)
    /\ last_state' = Pop(last_state, sid)
    /\ tasks' = [tasks EXCEPT ![t] =
                   [IdleTask EXCEPT !.op = "forget_session", !.pc = "ret",
                       !.sid = sid, !.res = "ok"]]
    /\ UNCHANGED <<mgrVars, log, tmux, sent, kills, clipboard, subs, pushes, loop>>

PushSids == {"agent-claude-a", "agent-claude-b"}
PushEndpoints == {"https://ep/1", "https://ep/2"}
UIStates == {"working", "prompt", "selection"}

\* the subscriptions on file at startup
StoredSubs ==
    { <<>>,
      <<PushSubscription("https://ep/1", "agent-claude-a")>>,
      <<PushSubscription("https://ep/1", "agent-claude-a"),
        PushSubscription("https://ep/2", "agent-claude-a"),
        PushSubscription("https://ep/1", "agent-claude-b")>> }

InitPush ==
    /\ phase = "run"
    /\ now = 1
    /\ sessions = <<>>
    /\ agents = {}
    /\ last_output = EmptyDict
    /\ last_tail = EmptyDict
    /\ last_history_size = EmptyDict
    /\ tmux = EmptyDict
    /\ log = <<>>
    /\ settings = [rehydrate_dir_whitelist |-> {}]
    /\ sent = <<>>
    /\ kills = EmptyDict
    /\ clipboard = ""
    /\ last_state = EmptyDict
    /\ subs \in StoredSubs
    /\ pushes = <<>>
    /\ tasks = [t \in {"t1"} |-> IdleTask]
    /\ loop = IdleLoop
    /\ calls = 0

NextPush ==
    \/ \E sid \in PushSids, state \in UIStates,
          outcome \in [PushEndpoints -> {"ok", "gone", "failed"}] :
          check_and_notify("t1", sid, state, outcome)
    \/ \E sid \in PushSids : forget_session("t1", sid)
    \/ task_return("t1")

SpecPush == InitPush /\ [][NextPush]_vars

\* C35: check_and_notify sends pushes for a session only when the reported state
\* is PROMPT or SELECTION and differs from the state the previous call recorded
\* for the session: a repeated report and a WORKING report send nothing and
\* return 0; a report that is due calls webpush once for every subscription of
\* the session; every report is recorded; forget_session removes the record, so
\* that the next PROMPT or SELECTION report is due again.
C35_NotifyOnTransition ==
    [][\A t \in DOMAIN tasks :
          tasks[t].pc = "idle" /\ tasks'[t].pc = "ret"
          => LET sid == tasks'[t].sid
                 state == tasks'[t].text
                 due == /\ state \in {"prompt", "selection"}
                        /\ sid \notin DOMAIN last_state \/ last_state[sid] # state
                 mine == SelectSeq(subs, LAMBDA x : x.session_id = sid)
             IN  /\ tasks'[t].op = "check_and_notify"
                    => /\ ~due => pushes' = pushes /\ tasks'[t].size = 0
                       /\ due => pushes' = pushes \o mine
                       /\ last_state'[sid] = state
                 /\ tasks'[t].op = "forget_session"
                    => sid \notin DOMAIN last_state' /\ pushes' = pushes]_vars

\* a PROMPT report for a session with a subscription sent nothing because PROMPT
\* was the state recorded for it
C35_RepeatSuppressed ==
    \E t \in DOMAIN tasks :
        /\ tasks[t].op = "check_and_notify" /\ tasks[t].pc = "ret"
        /\ tasks[t].text = "prompt" /\ tasks[t].kind = "prompt" /\ tasks[t].size = 0
        /\ \E i \in DOMAIN pushes : pushes[i].session_id = tasks[t].sid
        /\ \E i \in DOMAIN subs : subs[i].session_id = tasks[t].sid

\* ---------------------------------------------------------------------------
\* Removal against the capture tick

\* the chunks of sid a reader of the log sees: the rows with archived = 0
LiveChunks(sid) ==
    {i \in DOMAIN log : log[i].session_id = sid /\ ~log[i].archived}

\* C36: once remove_dead_session(s) has completed, and while no new session of
\* id s exists, the Output Log holds no non-archived chunk of s: session_ids()
\* does not contain s and read(s) is empty, whatever the capture tick and the
\* kill_session and remove_dead_session requests did in between.
C36_RemovedStaysArchived ==
    \A sid \in KnownIds :
        (Removed(sid) /\ ~Registered(sid))
            => /\ LiveChunks(sid) = {}
               /\ \A i \in DOMAIN log_session_ids(log) : log_session_ids(log)[i] # sid
               /\ log_read(log, sid, NoneTs, MaxLogChunks + 1).chunks = <<>>

\* ---------------------------------------------------------------------------
\* Concurrent create_session requests

\* C37: a create_session request accepted while another one for the same
\* working directory awaits the backend obtains an id different from the other's
\* and does not fail, and a registration never overwrites an entry of the
\* registry or the adapter stored for it.
C37_ConcurrentCreatesDiffer ==
    [][/\ \A t \in TaskIds : \A u \in TaskIds \ {t} :
            \A dir \in LifeDirs, kind \in AgentTypes :
                (/\ tasks[u].op = "create_session" /\ tasks[u].pc = "r_create"
                 /\ dir.is_dir /\ dir.path = tasks[u].wd
                 /\ tasks[t].pc = "idle" /\ tasks'[t].op = "create_session"
                 /\ create_session_call(t, dir, <<>>, kind))
                    => /\ tasks'[t].pc = "r_create"
                       /\ tasks'[t].sid # tasks[u].sid
       /\ \A t \in TaskIds :
            (tasks[t].op = "create_session" /\ tasks[t].pc = "r_create"
             /\ tasks'[t].pc = "ret")
                => /\ ~Registered(tasks[t].sid)
                   /\ tasks[t].sid \notin agents]_vars

\* ---------------------------------------------------------------------------
\* list_sessions against registry changes

\* C38: list_sessions completes without error and returns the sessions of the
\* registry, also when a request that adds or removes a registry entry ran while
\* it was suspended in a liveness check of the backend.
C38_ListSurvivesChange ==
    [][\A t \in TaskIds :
          (tasks'[t].op = "list_sessions" /\ tasks[t].pc # "ret"
           /\ tasks'[t].pc = "ret")
              => /\ tasks'[t].res = "ok"
                 /\ tasks'[t].out = [i \in DOMAIN sessions' |-> sessions'[i].session_id]]_vars

\* ---------------------------------------------------------------------------
\* Paging through a session's history: a client calls AgentOutputLog.read with
\* before = None, then with before = earliest_ts of the page it got, until a
\* page comes back empty.  The frame collects the chunks (out, oldest first) and
\* keeps the cursor (before).

PageLimits == {1, 2}

PagesFrame(frame, page) ==
    [frame EXCEPT !.out = page.chunks \o frame.out,
                  !.before = page.earliest_ts,
                  !.ts = page.earliest_ts,
                  !.call = frame.call + 1,
                  !.pc = IF page.chunks = <<>> THEN "ret" ELSE "o_page",
                  !.res = IF page.chunks = <<>> THEN "ok" ELSE ""]

\* the first page: read(session_id, before=None, limit)
read_pages_first(t, sid, limit) ==
    /\ phase = "run" /\ tasks[t].pc = "idle"
    /\ tasks' = [tasks EXCEPT ![t] =
                    PagesFrame([IdleTask EXCEPT !.op = "read_pages", !.sid = sid,
                                                !.limit = limit],
                               log_read(log, sid, NoneTs, limit))]
    /\ UNCHANGED <<envVars, mgrVars, log, tmux, sent, kills, clipboard, pushVars, loop>>

\* the next page: read(session_id, before=earliest_ts, limit)
read_pages_next(t) ==
    /\ tasks[t].op = "read_pages" /\ tasks[t].pc = "o_page"
    /\ tasks' = [tasks EXCEPT ![t] =
                    PagesFrame(tasks[t],
                               log_read(log, tasks[t].sid, tasks[t].before,
                                        tasks[t].limit))]
    /\ UNCHANGED <<envVars, mgrVars, log, tmux, sent, kills, clipboard, pushVars, loop>>

\* the log is written between two walks through the pages, not during one
NoPagesOpen == \A t \in DOMAIN tasks : tasks[t].pc = "idle"

InitPages == InitWith({"t1"})

NextPages ==
    \/ lifespan_rehydrate
    \/ Tick
    \/ NoPagesOpen /\ LogWrites
    \/ \E t \in {"t1"} :
          \/ \E sid \in LogIds, limit \in PageLimits : read_pages_first(t, sid, limit)
          \/ read_pages_next(t)
          \/ task_return(t)

SpecPages == InitPages /\ [][NextPages]_vars

\* C39: reading a session's history page by page, with before = earliest_ts of
\* the previous page, returns every non-archived chunk of the session exactly
\* once, whatever the timestamps of the chunks and the page limit (>= 1) are.
C39_PagesCoverOnce ==
    \A t \in DOMAIN tasks :
        (tasks[t].op = "read_pages" /\ tasks[t].pc = "ret")
            => /\ Range(tasks[t].out) = LiveChunks(tasks[t].sid)
               /\ \A k, l \in DOMAIN tasks[t].out :
                     tasks[t].out[k] = tasks[t].out[l] => k = l

\* ---------------------------------------------------------------------------
\* Progress of the capture loop.  _capture_loop is a task of its own that
\* sleeps, captures every active session and sleeps again, and goes on after a
\* capture that raised: a step of the loop that is possible is taken in the
\* end, which is weak fairness of CaptureLoop.  The panes print, exit, and are
\* taken away by a tmux user.

InitLive == InitBoot

NextLive ==
    \/ lifespan_rehydrate
    \/ Tick
    \/ CaptureLoop
    \/ Environment

SpecLive == InitLive /\ [][NextLive]_vars /\ WF_vars(CaptureLoop)

\* a registered LIVE session whose pane is kept with the status of its exited
\* process
ExitedLive(sid) ==
    /\ Registered(sid) /\ Info(sid).is_alive
    /\ sid \in DOMAIN tmux /\ tmux[sid].dead

\* the session is DEAD and the backend was asked once to kill it
DeadByLoop(sid) ==
    /\ Registered(sid) /\ ~Info(sid).is_alive
    /\ Count(kills, sid) = 1

\* the pane was taken away outside the orchestrator: no pane, and no kill asked
GoneOutside(sid) == sid \notin DOMAIN tmux /\ Count(kills, sid) = 0

\* at the step that marks a session DEAD the loop is past the final capture of
\* that session, and the rest of its buffer - the lines after the overlap with
\* the last captured scrollback - is already a chunk of the Output Log
FinalChunkBeforeDead ==
    [][\A sid \in Keys(sessions) :
          (Info(sid).is_alive /\ ~InfoIn(sessions', sid).is_alive)
             => /\ loop.pc = "r_kill" /\ loop.sid = sid
                /\ log' = log
                /\ \E i \in DOMAIN log :
                      /\ log[i].session_id = sid /\ ~log[i].archived
                      /\ log[i].content
                           = JoinLines(AfterOverlap(
                                 IF sid \in DOMAIN last_tail
                                 THEN last_tail[sid] ELSE <<>>, loop.lines))]_vars

\* the one call of the loop that can fail here: capture_to_log is about to call
\* capture_scrollback (the stored history size differs from the one read) for a
\* session the backend no longer has, which raises
CaptureRaises ==
    /\ loop.pc = "r_hsize"
    /\ loop.sid \notin DOMAIN tmux
    /\ ~(/\ loop.sid \in DOMAIN last_history_size
          /\ last_history_size[loop.sid] = loop.hsize)

====
